---- MODULE Spec2Model ----
(***************************************************************************)
(* Verification model of the PatternMatching repository: the real-time    *)
(* KMP matcher (kmprt.c), the Breslauer-Galil single-pattern engine        *)
(* (bgps.c), the multi-pattern wrapper (mpbg.c), the Aho-Corasick          *)
(* reference (mpac.c), the patterns tree (PatternsTree.c) and the success  *)
(* classification of the measuring harness (measure.c).                    *)
(*                                                                         *)
(* C arrays are 0-based; a byte string is a TLA+ sequence and At(s, i) is  *)
(* the C expression s[i].  An element of a char array is the value of the  *)
(* char: the patterns and streams of the matchers are ASCII, whose chars    *)
(* are their byte values; the fingerprint functions are also given bytes    *)
(* above 127, whose char value depends on the signedness of char.           *)
(***************************************************************************)
EXTENDS Integers, Sequences, FiniteSets, TLC

VARIABLES
    kmpPattern,   \* the pattern given to kmp_new
    kmpText,      \* the bytes given to kmp_read_char so far
    kmp,          \* the KMPRealTime struct
    kmpRet,       \* the value returned by the last kmp_read_char call
    kmpSteps,     \* _kmp_move_failure_function applications in the last call
    bgObj,        \* the BGStruct
    bgRet,        \* the value returned by the last bg_read_char call
    dictLines,    \* the patterns of the lines read from the dictionary file
    fptFill,      \* the FullPatternsTree being filled, and max_pat_len
    ptState,      \* the PatternsTree and the add_pattern_func calls made
    ptRet,        \* the pointer the caller of patterns_tree_build receives
    sufQuery,     \* the last is_pattern_suffix call and its result
    sucRate,      \* the SuccessRate struct
    algoResults,  \* the algo_results given to measure_success_rate so far
    realResults,  \* the real_results given to measure_success_rate so far
    acObj,        \* the AC struct
    acStream,     \* the bytes given to ac_read_char since the last reset
    acRet,        \* the value returned by the last ac_read_char call
    mpbgObj,      \* the MPBGStruct
    mpbgStream,   \* the bytes given to mpbg_read_char so far
    mpbgRet,      \* the value returned by the last mpbg_read_char call
    fpIn,         \* the build, field and char arrays given to calc_fp
    fpOut,        \* the values the fingerprint functions returned
    fieldCells,   \* the field and the FieldVal objects the field functions work on
    rsState,      \* an engine that is reset and a freshly built one, and their results
    ctState,      \* a multi-pattern matcher under any order of its calls
    psState,      \* a dictionary line and what the parser made of it
    bnState,      \* a pattern and the engine that bg_new builds for it
    abState,      \* an Aho-Corasick object given bytes of every value in C chars
    ciState,      \* the locals of calculate_inverse, from one loop iteration to the next
    hsState       \* the run of main: the instances, the streams, the calls made, the statistics

kmpVars == <<kmpPattern, kmpText, kmp, kmpRet, kmpSteps>>

bgVars == <<bgObj, bgRet>>

treeVars == <<dictLines, fptFill, ptState, ptRet, sufQuery>>

measureVars == <<sucRate, algoResults, realResults>>

acVars == <<acObj, acStream, acRet>>

mpbgVars == <<mpbgObj, mpbgStream, mpbgRet>>

fpVars == <<fpIn, fpOut>>

\* the variables of the components that the matcher specifications leave idle
fieldVars == <<fieldCells>>

resetVars == <<rsState>>

contractVars == <<ctState>>

parserVars == <<psState>>

newVars == <<bnState>>

bytesVars == <<abState>>

inverseVars == <<ciState>>

harnessVars == <<hsState>>

moreVars == <<bytesVars, inverseVars, harnessVars>>

extraVars == <<contractVars, parserVars, newVars, moreVars>>

restVars == <<fpVars, fieldVars, resetVars, extraVars>>

vars == <<kmpVars, bgVars, treeVars, measureVars, acVars, mpbgVars, restVars>>

\* the value of the variables of a component that a specification does not run
Idle == "idle"

-----------------------------------------------------------------------------
(* Bounds of the model *)

\* longest pattern given to the stand-alone KMP matcher
MaxKmpPat == 5
\* longest text fed to the stand-alone KMP matcher
MaxKmpText == 9

\* longest free stream fed to the Breslauer-Galil engine
MaxBgText == 11

\* longest pattern of a dictionary line
MaxTreePatLen == 3
\* most lines of the dictionary file
MaxDictLines == 3

\* most results one measure_success_rate call is given
MaxChunk == 2
\* most results measured in all
MaxMeasured == 3

\* longest pattern and most lines of the dictionaries given to Aho-Corasick
MaxAcPatLen == 3
MaxAcDictLines == 2
\* longest stream fed to Aho-Corasick
MaxAcText == 5

\* longest stream fed to the multi-pattern Breslauer-Galil matcher
MaxMpbgText == 10

\* longest char array given to calc_fp as the prefix and as the suffix
MaxFpLen == 2

\* longest run of the period read by an engine of a long pattern
MaxBgLongText == 72

\* the longest of the patterns over the alphabet that bg_new is given
MaxNewPatLen == 10

\* longest stream an engine reads before it is reset, and after it
MaxResetBefore == 9

MaxResetAfter == 3

\* most field_mul, field_div and calc_fp calls made on the FieldVal objects
MaxFieldOps == 1

\* longest stream fed to the engine that runs beside the field functions
MaxFieldBgText == 9

\* the bytes 'a' and 'b'
Alphabet == {97, 98}

-----------------------------------------------------------------------------
(* Byte strings *)

At(s, i) == s[i + 1]

\* s[from .. from + len - 1]
Sub(s, from, len) == SubSeq(s, from + 1, from + len)

\* the byte c repeated n times
Rep(c, n) == [i \in 1..n |-> c]

StringsOfLen(S, n) == [1..n -> S]

StringsUpTo(S, n) == UNION {StringsOfLen(S, k) : k \in 1..n}

\* the elements of a set of numbers in increasing order
RECURSIVE SortedSeq(_)
SortedSeq(S) ==
    IF S = {} THEN <<>>
    ELSE LET m == CHOOSE x \in S : \A y \in S : x <= y
         IN  <<m>> \o SortedSeq(S \ {m})

\* an occurrence of pat in text ends at (0-based) position i
OccursEndingAt(pat, text, i) ==
    /\ i + 1 >= Len(pat)
    /\ i < Len(text)
    /\ Sub(text, i + 1 - Len(pat), Len(pat)) = pat

-----------------------------------------------------------------------------
(* kmprt.c *)

RECURSIVE kmp_failure_loop(_, _, _, _, _)
kmp_failure_loop(pattern, n, table, pos, cnd) ==
    IF pos >= n + 1 THEN table
    ELSE IF At(pattern, pos - 1) = At(pattern, cnd)
         THEN kmp_failure_loop(pattern, n, [table EXCEPT ![pos] = cnd + 1], pos + 1, cnd + 1)
         ELSE IF cnd > 0
              THEN kmp_failure_loop(pattern, n, table, pos, table[cnd])
              ELSE kmp_failure_loop(pattern, n, [table EXCEPT ![pos] = 0], pos + 1, cnd)

kmp_create_failure_table(pattern, n) ==
    kmp_failure_loop(pattern, n, [i \in 0..n |-> 0], 2, 0)

kmp_get_period(pattern, n) == n - kmp_create_failure_table(pattern, n)[n]

\* The struct after kmp_new (memset to 0).  steps, overwrote and branch are
\* history fields: the failure steps of the current call, whether a buffered
\* byte was overwritten before it was popped, and the branch of
\* kmp_read_char that the last call took.
kmp_new(pattern, n) ==
    [ n |-> n,
      pattern |-> Sub(pattern, 0, n),
      failure_table |-> kmp_create_failure_table(pattern, n),
      offset |-> 0,
      buffer |-> [i \in 0..(n - 1) |-> 0],
      buf_start |-> 0,
      buf_end |-> 0,
      LOOP_FAIL |-> FALSE,
      HAVE_BUFFER |-> FALSE,
      steps |-> 0,
      overwrote |-> FALSE,
      branch |-> "none" ]

MOD_INC(x, p) == (x + 1) % p

MOD_DEC(x, p) == IF x # 0 THEN x - 1 ELSE p - 1

\* number of bytes between buf_start and buf_end
kmp_buffer_len(k) ==
    IF k.HAVE_BUFFER THEN ((k.buf_end + k.n - k.buf_start) % k.n) + 1 ELSE 0

\* returns <<struct, finished>>
_kmp_move_failure_function(k, c) ==
    LET off == k.failure_table[k.offset]
        k1 == [k EXCEPT !.offset = off, !.steps = @ + 1]
    IN  IF At(k.pattern, off) = c THEN <<[k1 EXCEPT !.offset = off + 1], 1>>
        ELSE IF off = 0 THEN <<k1, 1>>
        ELSE <<k1, 0>>

_kmp_add_char_to_buffer(k, c) ==
    IF k.HAVE_BUFFER
    THEN LET e == MOD_INC(k.buf_end, k.n)
         IN  [k EXCEPT !.buf_end = e, !.buffer[e] = c,
                       !.overwrote = @ \/ kmp_buffer_len(k) = k.n]
    ELSE [k EXCEPT !.buf_start = 0, !.buf_end = 0, !.buffer[0] = c,
                   !.HAVE_BUFFER = TRUE]

_kmp_push_char_to_buffer(k, c) ==
    IF k.HAVE_BUFFER
    THEN LET s == MOD_DEC(k.buf_start, k.n)
         IN  [k EXCEPT !.buf_start = s, !.buffer[s] = c,
                       !.overwrote = @ \/ kmp_buffer_len(k) = k.n]
    ELSE [k EXCEPT !.buf_start = 0, !.buf_end = 0, !.buffer[0] = c,
                   !.HAVE_BUFFER = TRUE]

\* _kmp_pop_buffer that forgets to advance buf_start
_kmp_pop_buffer_NoAdvance(k) ==
    LET c == k.buffer[k.buf_start]
    IN  <<IF k.buf_start = k.buf_end THEN [k EXCEPT !.HAVE_BUFFER = FALSE] ELSE k, c>>

\* returns <<struct, popped byte>>
_kmp_pop_buffer(k) ==
    LET c == k.buffer[k.buf_start]
        k1 == IF k.buf_start = k.buf_end THEN [k EXCEPT !.HAVE_BUFFER = FALSE] ELSE k
    IN  <<[k1 EXCEPT !.buf_start = MOD_INC(k.buf_start, k.n)], c>>

\* the for loop of _kmp_read_char (i = 0, 1); returns <<struct, resolved>>
RECURSIVE _kmp_read_char_loop(_, _, _)
_kmp_read_char_loop(k, c, i) ==
    IF i >= 2 THEN <<k, 0>>
    ELSE LET m == _kmp_move_failure_function(k, c)
         IN  IF m[2] = 1 THEN <<m[1], 1>>
             ELSE _kmp_read_char_loop(m[1], c, i + 1)

\* _kmp_read_char that restarts from offset 0 after a match
_kmp_read_char_Restart(k, c) ==
    IF At(k.pattern, k.offset) = c
    THEN IF k.offset + 1 = k.n
         THEN <<[k EXCEPT !.offset = 0], 1>>
         ELSE <<[k EXCEPT !.offset = k.offset + 1], 0>>
    ELSE IF k.offset = 0 THEN <<k, 0>>
    ELSE LET l == _kmp_read_char_loop(k, c, 0)
         IN  IF l[2] = 1 THEN <<l[1], 0>>
             ELSE <<_kmp_push_char_to_buffer([l[1] EXCEPT !.LOOP_FAIL = TRUE], c), 0>>

\* returns <<struct, match>>
_kmp_read_char(k, c) ==
    IF At(k.pattern, k.offset) = c
    THEN IF k.offset + 1 = k.n
         THEN <<[k EXCEPT !.offset = k.failure_table[k.n]], 1>>
         ELSE <<[k EXCEPT !.offset = k.offset + 1], 0>>
    ELSE IF k.offset = 0 THEN <<k, 0>>
    ELSE LET l == _kmp_read_char_loop(k, c, 0)
         IN  IF l[2] = 1 THEN <<l[1], 0>>
             ELSE <<_kmp_push_char_to_buffer([l[1] EXCEPT !.LOOP_FAIL = TRUE], c), 0>>

\* the for loop of the LOOP_FAIL branch of kmp_read_char
RECURSIVE kmp_loop_fail_loop(_, _)
kmp_loop_fail_loop(k, i) ==
    IF i >= 2 THEN k
    ELSE LET m == _kmp_move_failure_function(k, k.buffer[k.buf_start])
         IN  IF m[2] = 1
             THEN [_kmp_pop_buffer(m[1])[1] EXCEPT !.LOOP_FAIL = FALSE]
             ELSE kmp_loop_fail_loop(m[1], i + 1)

RECURSIVE kmp_have_buffer_loop(_, _)
\* the loop of the HAVE_BUFFER branch that takes one byte from the buffer
kmp_have_buffer_loop_OneByte(k, i) ==
    LET p == _kmp_pop_buffer(k)
    IN  _kmp_read_char(p[1], p[2])
\* the for loop of the HAVE_BUFFER branch of kmp_read_char; returns <<struct, match>>
kmp_have_buffer_loop(k, i) ==
    IF i >= 2 THEN <<k, 0>>
    ELSE LET p == _kmp_pop_buffer(k)
             r == _kmp_read_char(p[1], p[2])
         IN  IF r[2] = 1 THEN <<r[1], 1>>
             ELSE kmp_have_buffer_loop(r[1], i + 1)

\* returns <<struct, match>>
kmp_read_char(k0, c) ==
    LET k == [k0 EXCEPT !.steps = 0,
                        !.branch = IF k0.LOOP_FAIL THEN "loop_fail"
                                   ELSE IF k0.HAVE_BUFFER THEN "have_buffer"
                                   ELSE "direct"]
    IN  IF k.LOOP_FAIL
        THEN <<kmp_loop_fail_loop(_kmp_add_char_to_buffer(k, c), 0), 0>>
        ELSE IF k.HAVE_BUFFER
        THEN kmp_have_buffer_loop(_kmp_add_char_to_buffer(k, c), 0)
        ELSE _kmp_read_char(k, c)

\* kmp_reset is declared in kmprt.h and defined in no source file; it is
\* taken to put the matcher back to the state kmp_new leaves it in, keeping
\* the pattern and the failure table, and to do nothing for a NULL matcher
kmp_reset(k) ==
    IF k.n = 0 THEN k
    ELSE [k EXCEPT !.offset = 0, !.buf_start = 0, !.buf_end = 0,
                   !.buffer = [i \in 0..(k.n - 1) |-> 0],
                   !.LOOP_FAIL = FALSE, !.HAVE_BUFFER = FALSE, !.steps = 0]

-----------------------------------------------------------------------------
(* field.h, field.c, Fingerprint.h, Fingerprint.c *)

\* the FieldVal struct
FieldVal(val, inv) == [val |-> val, inv |-> inv]

\* the while loop of calculate_inverse
RECURSIVE calculate_inverse_loop(_, _, _, _, _)
calculate_inverse_loop(r, t, rr, tt, p) ==
    IF rr = 0 THEN t
    ELSE LET q == r \div rr
             ntt == IF t > q * tt THEN t - q * tt ELSE t + p - ((q * tt) % p)
         IN  calculate_inverse_loop(rr, tt, r - q * rr, ntt, p)

calculate_inverse(a, p) == calculate_inverse_loop(p, 0, a, 1, p)

field_div(numerator, denomerator, p) ==
    FieldVal((numerator.val * denomerator.inv) % p,
             (denomerator.val * numerator.inv) % p)

field_mul(val1, val2, p) ==
    FieldVal((val1.val * val2.val) % p, (val1.inv * val2.inv) % p)

(* field_div and field_mul on FieldVal objects in a memory mem: dst,         *)
(* numerator, denomerator, val1 and val2 are addresses, which may be equal; *)
(* the two assignments are made one after the other.                        *)

\* field_div that reads denomerator->val after dst->val is assigned
field_div_at_NoSave(mem, dst, numerator, denomerator, p) ==
    LET mem1 == [mem EXCEPT ![dst].val =
                                (mem[numerator].val * mem[denomerator].inv) % p]
    IN  [mem1 EXCEPT ![dst].inv = (mem1[denomerator].val * mem1[numerator].inv) % p]

field_div_at(mem, dst, numerator, denomerator, p) ==
    LET den_val == mem[denomerator].val
        mem1 == [mem EXCEPT ![dst].val =
                                (mem[numerator].val * mem[denomerator].inv) % p]
    IN  [mem1 EXCEPT ![dst].inv = (den_val * mem1[numerator].inv) % p]

field_mul_at(mem, dst, val1, val2, p) ==
    LET mem1 == [mem EXCEPT ![dst].val = (mem[val1].val * mem[val2].val) % p]
    IN  [mem1 EXCEPT ![dst].inv = (mem1[val1].inv * mem1[val2].inv) % p]

\* the width of field_t (unsigned long long)
FieldBits == 64

RECURSIVE PowMod(_, _, _)
PowMod(b, e, p) == IF e = 0 THEN 1 % p ELSE (b * PowMod(b, e - 1, p)) % p

\* ret += c * current_rn; ret %= p, for a char c.  c is converted to
\* field_t, so a negative c stands for 2^FieldBits + c, and the product and
\* the sum wrap around 2^FieldBits: with m = (-c) * current_rn, the sum is
\* ret - m when ret >= m and 2^FieldBits - (m - ret) otherwise.  (ret and m
\* are below 2^FieldBits.)
calc_fp_add(ret, c, current_rn, p) ==
    IF c >= 0 \/ current_rn = 0 THEN (ret + c * current_rn) % p
    ELSE IF ret >= (-c) * current_rn THEN (ret - (-c) * current_rn) % p
    ELSE (PowMod(2, FieldBits, p) + p - (((-c) * current_rn - ret) % p)) % p

\* the for loop shared by calc_fp and calc_fp_with_prefix: chars seq[from .. len-1];
\* returns <<fingerprint, rn>>
RECURSIVE calc_fp_loop(_, _, _, _, _, _, _)
calc_fp_loop(seq, from, len, ret, rn, r, p) ==
    IF from >= len THEN <<ret, rn>>
    ELSE calc_fp_loop(seq, from + 1, len,
                      calc_fp_add(ret, At(seq, from), rn.val, p),
                      FieldVal((rn.val * r.val) % p, (rn.inv * r.inv) % p),
                      r, p)

\* returns <<fingerprint, rn>>
calc_fp(seq, len, r, p) == calc_fp_loop(seq, 0, len, 0, FieldVal(1, 1), r, p)

\* returns <<fingerprint, rn>>
calc_fp_with_prefix(seq, len, prefix_fp, prefix_len, rn, r, p) ==
    calc_fp_loop(seq, prefix_len, len, prefix_fp, rn, r, p)

calc_fp_suffix(all_fp, prefix_fp, r_prefix, p) ==
    ((IF all_fp > prefix_fp THEN all_fp - prefix_fp ELSE p - prefix_fp + all_fp)
        * r_prefix.inv) % p

calc_fp_prefix(all_fp, suffix_fp, r_prefix, p) ==
    LET suffix_part == (suffix_fp * r_prefix.val) % p
    IN  (IF all_fp > suffix_part THEN all_fp - suffix_part
         ELSE p - suffix_part + all_fp) % p

calc_fp_from_prefix_suffix(prefix_fp, suffix_fp, r_prefix, p) ==
    (prefix_fp + ((suffix_fp * r_prefix.val) % p)) % p

-----------------------------------------------------------------------------
(* bgps.c (the second, current version of the engine) *)

BG_SHORT_PATTERN_LENGTH == 8

RECURSIVE Pow2(_)
Pow2(k) == IF k = 0 THEN 1 ELSE 2 * Pow2(k - 1)

RECURSIVE FloorLog2(_)
FloorLog2(x) == IF x <= 1 THEN 0 ELSE 1 + FloorLog2(x \div 2)

bg_log2(x, ceil) ==
    FloorLog2(x) + (IF ceil = 0 \/ Pow2(FloorLog2(x)) = x THEN 0 ELSE 1)

real_stage_to_len(bg, stage_num) ==
    IF stage_num = bg.logn THEN bg.n ELSE Pow2(stage_num)

\* len_to_real_stage without the stage of the whole pattern
len_to_real_stage_Floor(bg, len) == bg_log2(len, 0)

len_to_real_stage(bg, len) ==
    IF len = bg.n THEN bg.logn ELSE bg_log2(len, 0)

stage_to_len(bg, stage_num) == real_stage_to_len(bg, stage_num + bg.first_stage)

N_STAGES(bg) == bg.logn - bg.first_stage

RECURSIVE _bgps_find_period_continue(_, _, _, _)
_bgps_find_period_continue(pattern, all, n, period) ==
    IF n >= all THEN n
    ELSE IF At(pattern, n) # At(pattern, n % period) THEN n
    ELSE _bgps_find_period_continue(pattern, all, n + 1, period)

\* a NULL KMPRealTime pointer
KmpNull == [n |-> 0]

_bgps_init_kmp(bg, pattern) ==
    LET stage_loglogn_period == kmp_get_period(pattern, Pow2(bg.loglogn))
        period_stopped_pos ==
            _bgps_find_period_continue(pattern, bg.n, Pow2(bg.loglogn), stage_loglogn_period)
        first_stage == len_to_real_stage(bg, period_stopped_pos)
        len == real_stage_to_len(bg, first_stage)
        remaining == len % stage_loglogn_period
    IN  [bg EXCEPT !.first_stage = first_stage,
                   !.kmp_period = kmp_new(pattern, stage_loglogn_period),
                   !.n_kmp_period = len \div stage_loglogn_period,
                   !.kmp_remaining = IF remaining # 0 THEN kmp_new(pattern, remaining)
                                     ELSE KmpNull,
                   !.current_n_kmp_period = 0,
                   !.last_kmp_period_match_pos = 0]

\* the for loop of _bgps_init_fps over the real stages i < logn;
\* returns <<fps, rn>>
RECURSIVE _bgps_init_fps_loop(_, _, _, _, _)
_bgps_init_fps_loop(bg, pattern, i, fps, rn) ==
    IF i >= bg.logn THEN <<fps, rn>>
    ELSE LET f == calc_fp_with_prefix(pattern, Pow2(i), fps[i - bg.first_stage - 1],
                                      Pow2(i - 1), rn, bg.r, bg.p)
         IN  _bgps_init_fps_loop(bg, pattern, i + 1,
                                 [fps EXCEPT ![i - bg.first_stage] = f[1]], f[2])

_bgps_init_fps(bg, pattern) ==
    LET f0 == calc_fp(pattern, stage_to_len(bg, 0), bg.r, bg.p)
        fps0 == [i \in 0..N_STAGES(bg) |-> IF i = 0 THEN f0[1] ELSE 0]
        l == _bgps_init_fps_loop(bg, pattern, bg.first_stage + 1, fps0, f0[2])
        \* after the loop i is logn, or first_stage + 1 when the loop did not run
        i == IF bg.first_stage + 1 > bg.logn THEN bg.first_stage + 1 ELSE bg.logn
        bg1 == [bg EXCEPT !.first_stage_r = field_div(f0[2], bg.r, bg.p)]
    IN  IF bg.first_stage # bg.logn
        THEN LET f == calc_fp_with_prefix(pattern, bg.n, l[1][i - bg.first_stage - 1],
                                          Pow2(i - 1), l[2], bg.r, bg.p)
             IN  [bg1 EXCEPT !.fps = [l[1] EXCEPT ![i - bg.first_stage] = f[1]],
                             !.NEED_BEFORE_LAST_STAGE = (bg.n - Pow2(i - 1) < bg.logn)]
        ELSE [bg1 EXCEPT !.fps = l[1]]

\* a PosInfo and a VOLinearProgression after memset to 0
PosInfoZero == [r |-> FieldVal(0, 0), pos |-> 0, fp |-> 0]

VOZero == [first |-> PosInfoZero, step |-> PosInfoZero, n |-> 0]

\* returns <<struct, succeeded>>.  The history field held[stage] is the set
\* of the positions that were accepted into the stage and not removed since.
_bgps_add_vo(bg, stage, pos, fp, rn) ==
    LET vos == bg.vos[stage]
    IN  IF vos.n = 0
        THEN <<[bg EXCEPT !.vos[stage].first = [r |-> rn, pos |-> pos, fp |-> fp],
                          !.vos[stage].n = 1,
                          !.held[stage] = @ \cup {pos},
                          !.HAVE_LAST_STAGE = @ \/ stage = bg.logn,
                          !.HAVE_BEFORE_LAST_STAGE =
                              @ \/ (stage # bg.logn /\ bg.NEED_BEFORE_LAST_STAGE
                                    /\ stage = bg.logn - 1)], 1>>
        ELSE IF vos.n = 1
        THEN <<[bg EXCEPT !.vos[stage].step =
                              [r |-> field_div(rn, vos.first.r, bg.p),
                               pos |-> pos - vos.first.pos,
                               fp |-> calc_fp_suffix(fp, vos.first.fp, vos.first.r, bg.p)],
                          !.vos[stage].n = 2,
                          !.held[stage] = @ \cup {pos}], 1>>
        ELSE IF vos.first.pos + (vos.n + 1) * vos.step.pos # pos
        THEN <<bg, 0>>
        ELSE <<[bg EXCEPT !.vos[stage].n = vos.n + 1,
                          !.held[stage] = @ \cup {pos}], 1>>

_bgps_remove_first_vo(bg, stage) ==
    LET vos == bg.vos[stage]
    IN  IF vos.n = 0 THEN bg
        ELSE IF vos.n = 1
        THEN [bg EXCEPT !.vos[stage].n = 0,
                        !.held[stage] = {},
                        !.HAVE_LAST_STAGE = @ /\ stage # bg.logn,
                        !.HAVE_BEFORE_LAST_STAGE =
                            @ /\ ~(stage # bg.logn /\ stage = bg.logn - 1)]
        ELSE [bg EXCEPT !.vos[stage].first =
                            [r |-> field_mul(vos.first.r, vos.step.r, bg.p),
                             pos |-> vos.first.pos + vos.step.pos,
                             fp |-> calc_fp_from_prefix_suffix(vos.first.fp, vos.step.fp,
                                                               vos.step.r, bg.p)],
                        !.vos[stage].n = vos.n - 1,
                        !.held[stage] = @ \ {vos.first.pos}]

\* the history field last_check before any call of _bgps_vo_stage_upgrade
NoCheck ==
    [stage |-> -1, first |-> 0, end_pos |-> 0, at |-> 0, compared |-> FALSE,
     read_fp |-> 0, check_fp |-> 0]

\* returns <<struct, upgraded>>.  The history field collision records a
\* fingerprint that equals fps[stage_num + 1] although the fingerprinted bytes
\* stream[first.pos .. end_pos] differ from that pattern prefix; reports counts
\* the "fingerprint collision" messages; last_check records the last call
\* that found a viable occurrence in its stage: the stage, first.pos, end_pos,
\* current_pos, whether the fingerprint was compared (and the first viable
\* occurrence removed), the fingerprint read from last_fps and check_fp.
_bgps_vo_stage_upgrade(bg, stage_num) ==
    LET vos == bg.vos[stage_num]
        end_pos == vos.first.pos + stage_to_len(bg, stage_num + 1)
    IN  IF vos.n = 0 THEN <<bg, 0>>
        ELSE IF bg.current_pos < end_pos \/ bg.current_pos >= end_pos + bg.logn
        THEN <<[bg EXCEPT !.last_check =
                   [stage |-> stage_num, first |-> vos.first.pos, end_pos |-> end_pos,
                    at |-> bg.current_pos, compared |-> FALSE,
                    read_fp |-> 0, check_fp |-> 0]], 0>>
        ELSE LET check_fp == calc_fp_suffix(bg.last_fps[end_pos % bg.logn],
                                            vos.first.fp, vos.first.r, bg.p)
                 equal == (check_fp = bg.fps[stage_num + 1])
                 same == Sub(bg.stream, vos.first.pos, end_pos + 1 - vos.first.pos)
                           = Sub(bg.pattern, 0, stage_to_len(bg, stage_num + 1))
                 bg0 == [bg EXCEPT !.collision = @ \/ (equal /\ ~same),
                                   !.last_check =
                                       [stage |-> stage_num, first |-> vos.first.pos,
                                        end_pos |-> end_pos, at |-> bg.current_pos,
                                        compared |-> TRUE,
                                        read_fp |-> bg.last_fps[end_pos % bg.logn],
                                        check_fp |-> check_fp]]
             IN  IF ~equal THEN <<_bgps_remove_first_vo(bg0, stage_num), 0>>
                 ELSE IF stage_num = N_STAGES(bg) - 1
                 THEN <<_bgps_remove_first_vo(bg0, stage_num), 1>>
                 ELSE LET a == _bgps_add_vo(bg0, stage_num + 1, vos.first.pos,
                                            vos.first.fp, vos.first.r)
                      IN  IF a[2] = 0
                          THEN <<_bgps_remove_first_vo(
                                    [a[1] EXCEPT !.vos[stage_num + 1].n = 0,
                                                 !.held[stage_num + 1] = {},
                                                 !.reports = @ + 1], stage_num), 0>>
                          ELSE <<_bgps_remove_first_vo(a[1], stage_num), 1>>

\* the second if of _bgps_check_last_stages; returns <<struct, last stage matched>>
_bgps_check_last_stage(bg) ==
    IF bg.HAVE_LAST_STAGE
    THEN _bgps_vo_stage_upgrade(bg, N_STAGES(bg) - 1)
    ELSE <<bg, 0>>

\* returns <<struct, last stage matched>>
_bgps_check_last_stages(bg) ==
    _bgps_check_last_stage(IF bg.HAVE_BEFORE_LAST_STAGE
                           THEN _bgps_vo_stage_upgrade(bg, N_STAGES(bg) - 2)[1]
                           ELSE bg)

\* _bgps_check_first_stage_update that does not count the periods
_bgps_check_first_stage_update_AnyCount(bg, kp, kr) ==
    LET remaining_len == IF bg.kmp_remaining.n # 0 THEN bg.kmp_remaining.n ELSE 0
        last == IF kp[2] = 1 THEN bg.current_pos ELSE bg.last_kmp_period_match_pos
    IN  <<[bg EXCEPT !.kmp_period = kp[1],
                     !.kmp_remaining = kr[1],
                     !.last_kmp_period_match_pos = last],
          IF kr[2] = 1 /\ last + remaining_len = bg.current_pos THEN 1 ELSE 0>>

\* the body of _bgps_check_first_stage after its two kmp_read_char calls:
\* kp and kr are the <<struct, match>> results for kmp_period and
\* kmp_remaining (kr is <<kmp_remaining, 1>> when there is no kmp_remaining)
_bgps_check_first_stage_update(bg, kp, kr) ==
    LET kmp_period_match == kp[2]
        kmp_remaining_match == kr[2]
        period_len == bg.kmp_period.n
        remaining_len == IF bg.kmp_remaining.n # 0 THEN bg.kmp_remaining.n ELSE 0
        cnt == IF kmp_period_match = 1
               THEN IF bg.last_kmp_period_match_pos + period_len = bg.current_pos
                    THEN bg.current_n_kmp_period + 1 ELSE 1
               ELSE IF bg.last_kmp_period_match_pos + period_len <= bg.current_pos
                    THEN 0 ELSE bg.current_n_kmp_period
        last == IF kmp_period_match = 1 THEN bg.current_pos
                ELSE bg.last_kmp_period_match_pos
    IN  <<[bg EXCEPT !.kmp_period = kp[1],
                     !.kmp_remaining = kr[1],
                     !.current_n_kmp_period = cnt,
                     !.last_kmp_period_match_pos = last],
          IF kmp_remaining_match = 1
             /\ cnt >= bg.n_kmp_period
             /\ last + remaining_len = bg.current_pos
          THEN 1 ELSE 0>>

\* returns <<struct, first stage matched>>
_bgps_check_first_stage(bg, c) ==
    _bgps_check_first_stage_update(
        bg,
        kmp_read_char(bg.kmp_period, c),
        IF bg.kmp_remaining.n # 0 THEN kmp_read_char(bg.kmp_remaining, c)
        ELSE <<bg.kmp_remaining, 1>>)

_bg_add_to_first_stage(bg) ==
    LET vo_pos == bg.current_pos - stage_to_len(bg, 0) + 1
        vo_r == field_div(bg.current_r, bg.first_stage_r, bg.p)
        vo_fp == calc_fp_prefix(bg.current_fp, bg.fps[0], vo_r, bg.p)
        a == _bgps_add_vo(bg, 0, vo_pos, vo_fp, vo_r)
    IN  IF a[2] = 0 THEN [a[1] EXCEPT !.reports = @ + 1] ELSE a[1]

\* bg_new; r is the value drawn by rand() % p in the do-while loop (r > 1).
\* pattern, stream, collision, reports, last_check, visits and held are
\* history fields.
bg_new(pattern, n, p, r) ==
    LET bg0 == [ n |-> n, p |-> 0,
                 SHORT_PATTERN |-> FALSE,
                 HAVE_LAST_STAGE |-> FALSE,
                 HAVE_BEFORE_LAST_STAGE |-> FALSE,
                 NEED_BEFORE_LAST_STAGE |-> FALSE,
                 logn |-> 0, loglogn |-> 0, first_stage |-> 0,
                 r |-> FieldVal(0, 0), current_r |-> FieldVal(0, 0),
                 first_stage_r |-> FieldVal(0, 0),
                 current_pos |-> 0, last_kmp_period_match_pos |-> 0,
                 current_fp |-> 0, current_stage |-> 0,
                 n_kmp_period |-> 0, current_n_kmp_period |-> 0,
                 fps |-> <<>>, vos |-> <<>>, last_fps |-> <<>>,
                 kmp_period |-> KmpNull, kmp_remaining |-> KmpNull,
                 pattern |-> Sub(pattern, 0, n), stream |-> <<>>,
                 collision |-> FALSE, reports |-> 0, last_check |-> NoCheck,
                 visits |-> <<>>, held |-> <<>> ]
    IN  IF n <= BG_SHORT_PATTERN_LENGTH
        THEN [bg0 EXCEPT !.SHORT_PATTERN = TRUE, !.kmp_period = kmp_new(pattern, n)]
        ELSE LET logn == bg_log2(n, 1)
                 bg1 == [bg0 EXCEPT !.logn = logn, !.loglogn = bg_log2(logn, 1) + 1]
                 bg2 == _bgps_init_kmp(bg1, pattern)
                 bg3 == [bg2 EXCEPT !.p = p, !.r = FieldVal(r, calculate_inverse(r, p))]
                 bg4 == _bgps_init_fps(bg3, pattern)
             IN  [bg4 EXCEPT !.last_fps = [i \in 0..(logn - 1) |-> 0],
                             !.vos = [i \in 0..(N_STAGES(bg4) - 1) |-> VOZero],
                             !.held = [i \in 0..(N_STAGES(bg4) - 1) |-> {}],
                             !.current_fp = 0,
                             !.current_r = FieldVal(1, 1),
                             !.current_pos = 0,
                             !.current_stage = 0]

\* the end of bg_read_char: current_r and current_pos advance
bg_read_char_advance(bg, match) ==
    <<[bg EXCEPT !.current_r = field_mul(bg.current_r, bg.r, bg.p),
                 !.current_pos = @ + 1], match>>

\* bg_read_char_current_stage with the round robin over all the stages
bg_read_char_current_stage_AllStages(l) ==
    bg_read_char_advance(
        IF N_STAGES(l[1]) > 1
        THEN [_bgps_vo_stage_upgrade(l[1], l[1].current_stage)[1]
                 EXCEPT !.current_stage = MOD_DEC(@, N_STAGES(l[1])),
                        !.visits = Append(@, l[1].current_stage)]
        ELSE l[1],
        l[2])

\* bg_read_char from the current_stage upgrade on; l is the result of
\* _bgps_check_last_stages.  The history field visits lists the stages
\* given to _bgps_vo_stage_upgrade here, one per call.
bg_read_char_current_stage(l) ==
    bg_read_char_advance(
        IF N_STAGES(l[1]) > 1
        THEN [_bgps_vo_stage_upgrade(l[1], l[1].current_stage)[1]
                 EXCEPT !.current_stage = MOD_DEC(@, N_STAGES(l[1]) - 1),
                        !.visits = Append(@, l[1].current_stage)]
        ELSE l[1],
        l[2])

\* bg_read_char after _bgps_check_first_stage, whose result is f
bg_read_char_stages(f) ==
    bg_read_char_current_stage(
        _bgps_check_last_stages(IF f[2] = 1 THEN _bg_add_to_first_stage(f[1])
                                ELSE f[1]))

\* bg_read_char once the fingerprint fp of the stream is computed
bg_read_char_fp(bg, c, fp) ==
    bg_read_char_stages(
        _bgps_check_first_stage([bg EXCEPT !.current_fp = fp,
                                           !.last_fps[bg.current_pos % bg.logn] = fp],
                                c))

\* returns <<struct, match>>
bg_read_char_stream(bg, c) ==
    IF bg.SHORT_PATTERN
    THEN LET k == kmp_read_char(bg.kmp_period, c)
         IN  <<[bg EXCEPT !.kmp_period = k[1]], k[2]>>
    ELSE IF N_STAGES(bg) = 0 THEN _bgps_check_first_stage(bg, c)
    ELSE bg_read_char_fp(bg, c, calc_fp_from_prefix_suffix(bg.current_fp, c,
                                                           bg.current_r, bg.p))

\* returns <<struct, match>>; the byte is first recorded in the history
\* field stream
bg_read_char(bg0, c) == bg_read_char_stream([bg0 EXCEPT !.stream = Append(@, c)], c)

\* the history field stream restarts with the positions
bg_reset(bg) ==
    IF bg.SHORT_PATTERN
    THEN [bg EXCEPT !.kmp_period = kmp_reset(@), !.stream = <<>>]
    ELSE [bg EXCEPT !.current_r = FieldVal(1, 1),
                    !.current_pos = 0,
                    !.current_fp = 0,
                    !.current_stage = 0,
                    !.last_kmp_period_match_pos = 0,
                    !.current_n_kmp_period = 0,
                    !.vos = [i \in DOMAIN @ |-> VOZero],
                    !.held = [i \in DOMAIN @ |-> {}],
                    !.kmp_period = kmp_reset(@),
                    !.kmp_remaining = kmp_reset(@),
                    !.HAVE_LAST_STAGE = FALSE,
                    !.HAVE_BEFORE_LAST_STAGE = FALSE,
                    !.stream = <<>>,
                    !.last_check = NoCheck,
                    !.visits = <<>>]

-----------------------------------------------------------------------------
(* PatternsTree.h, PatternsTree.c *)

(* A heap of nodes is a sequence; a pointer to a node is its index, NULL is *)
(* 0.  An FptNode is [parent, pattern_id, edge_list], an FptEdge is         *)
(* [node, text, len] and an edge list is the sequence of its edges, head    *)
(* first.  A PatternsTreeNode is [parent, pattern_id, edge_list] with the   *)
(* child nodes as its edge list.                                            *)

null_pattern_id == 0

null_pattern_internal_id == [file_number |-> -1, line_number |-> -1]

PatternInternalID(file_number, line_number) ==
    [file_number |-> file_number, line_number |-> line_number]

\* _is_suffix_of that compares the start of str instead of its end
_is_suffix_of_Prefix(suf, suf_len, str, str_len) ==
    IF str_len <= suf_len THEN FALSE
    ELSE Sub(str, 0, suf_len) = Sub(suf, 0, suf_len)

_is_suffix_of(suf, suf_len, str, str_len) ==
    IF str_len <= suf_len THEN FALSE
    ELSE Sub(str, str_len - suf_len, suf_len) = Sub(suf, 0, suf_len)

\* owner is the node whose edge_list the C code passes by address
fpt_add_child_to_list(nodes, owner, node, pat, n) ==
    [nodes EXCEPT ![owner].edge_list =
        <<[node |-> node, text |-> Sub(pat, 0, n), len |-> n]>> \o @]

\* fpt_remove_child_from_list that leaves the edge in the list
fpt_remove_child_from_list_Leave(nodes, owner, child) == nodes

fpt_remove_child_from_list(nodes, owner, child) ==
    [nodes EXCEPT ![owner].edge_list = SelectSeq(@, LAMBDA e : e.node # child.node)]

\* returns <<heap, new node>>
fpt_create_new_child(nodes, parent, pat, n, id) ==
    LET node == Len(nodes) + 1
        allocated == Append(nodes, [parent |-> parent, pattern_id |-> id, edge_list |-> <<>>])
    IN  <<fpt_add_child_to_list(allocated, parent, node, pat, n), node>>

RECURSIVE fpt_add_pattern_to_node(_, _, _, _, _)
\* the while loop of fpt_add_pattern_to_node over the edges the list had on
\* entry (the code saves next_edge before it changes the list)
RECURSIVE fpt_add_pattern_loop(_, _, _, _, _, _, _, _)
fpt_add_pattern_loop(nodes, node, pat, n, id, edges, i, new_node) ==
    IF i > Len(edges)
    THEN IF new_node = 0 THEN fpt_create_new_child(nodes, node, pat, n, id)[1] ELSE nodes
    ELSE LET current_edge == edges[i]
         IN  IF current_edge.len = n /\ current_edge.text = Sub(pat, 0, n)
             THEN nodes
             ELSE IF _is_suffix_of(current_edge.text, current_edge.len, pat, n)
             THEN fpt_add_pattern_to_node(nodes, current_edge.node, pat,
                                          n - current_edge.len, id)
             ELSE IF _is_suffix_of(pat, n, current_edge.text, current_edge.len)
             THEN LET created == IF new_node = 0
                                 THEN fpt_create_new_child(nodes, node, pat, n, id)
                                 ELSE <<nodes, new_node>>
                      moved == fpt_add_child_to_list(created[1], created[2], current_edge.node,
                                                     current_edge.text, current_edge.len - n)
                  IN  fpt_add_pattern_loop(fpt_remove_child_from_list(moved, node, current_edge),
                                           node, pat, n, id, edges, i + 1, created[2])
             ELSE fpt_add_pattern_loop(nodes, node, pat, n, id, edges, i + 1, new_node)

fpt_add_pattern_to_node(nodes, node, pat, n, id) ==
    fpt_add_pattern_loop(nodes, node, pat, n, id, nodes[node].edge_list, 1, 0)

\* a FullPatternsTree: the heap of its nodes, the root and longest_pat_len
fpt_new ==
    [ nodes |-> <<[parent |-> 0, pattern_id |-> null_pattern_internal_id, edge_list |-> <<>>]>>,
      root |-> 1,
      longest_pat_len |-> 0 ]

fpt_add_pattern(tree, pat, n, id) ==
    [tree EXCEPT !.nodes = fpt_add_pattern_to_node(tree.nodes, tree.root, pat, n, id)]

\* the getline loop of fpt_fill_with_dict_file from line number line_num + 1 on,
\* for a file whose lines parse to the non-empty patterns lines[i];
\* returns <<tree, max_pat_len>>
RECURSIVE fpt_fill_with_dict_file(_, _, _, _, _)
fpt_fill_with_dict_file(tree, file_index, lines, line_num, max_pat_len) ==
    IF line_num >= Len(lines) THEN <<tree, max_pat_len>>
    ELSE LET pat == lines[line_num + 1]
             pat_len == Len(pat)
             id == PatternInternalID(file_index, line_num + 1)
         IN  fpt_fill_with_dict_file(fpt_add_pattern(tree, pat, pat_len, id), file_index, lines,
                                     line_num + 1,
                                     IF pat_len > max_pat_len THEN pat_len ELSE max_pat_len)

\* fpt_build for one dictionary file
fpt_build(lines) ==
    LET filled == fpt_fill_with_dict_file(fpt_new, 0, lines, 0, 0)
    IN  [filled[1] EXCEPT !.longest_pat_len = filled[2]]

\* memcpy(buffer + pos, text, len)
memcpy(buffer, pos, text, len) ==
    [j \in 1..Len(buffer) |->
        IF j - 1 >= pos /\ j - 1 < pos + len THEN At(text, j - 1 - pos) ELSE buffer[j]]

add_child_to_node(nodes, parent, child) ==
    [nodes EXCEPT ![parent].edge_list = <<child>> \o @]

(* The conversion threads conv = [nodes, buffer, calls]: the heap of the   *)
(* PatternsTreeNodes, the shared buffer and the add_pattern_func calls     *)
(* made so far, each [pat, len, id].                                       *)
RECURSIVE convert_fpt_node_to_patterns_tree_node(_, _, _, _, _)
\* the for loop of convert_fpt_node_to_patterns_tree_node over the edges
RECURSIVE convert_fpt_node_loop(_, _, _, _, _, _, _)
convert_fpt_node_loop(conv, fnodes, node, ret, buffer_len, pat_pos, i) ==
    IF i > Len(fnodes[node].edge_list) THEN conv
    ELSE LET current_edge == fnodes[node].edge_list[i]
             len == current_edge.len
             copied == [conv EXCEPT !.buffer = memcpy(@, pat_pos - len, current_edge.text, len)]
             sub == convert_fpt_node_to_patterns_tree_node(copied, fnodes, current_edge.node,
                                                           buffer_len, pat_pos - len)
             temp == sub[2]
             linked == [sub[1] EXCEPT !.nodes =
                           add_child_to_node([@ EXCEPT ![temp].parent = ret], ret, temp)]
         IN  convert_fpt_node_loop(linked, fnodes, node, ret, buffer_len, pat_pos, i + 1)

\* returns <<conv, converted node>>
convert_fpt_node_to_patterns_tree_node(conv, fnodes, node, buffer_len, pat_pos) ==
    LET ret == Len(conv.nodes) + 1
        allocated == [conv EXCEPT !.nodes =
                         Append(@, [parent |-> 0, pattern_id |-> fnodes[node].pattern_id,
                                    edge_list |-> <<>>])]
        looped == convert_fpt_node_loop(allocated, fnodes, node, ret, buffer_len, pat_pos, 1)
    IN  IF pat_pos # buffer_len
        THEN <<[looped EXCEPT !.calls =
                   Append(@, [pat |-> Sub(looped.buffer, pat_pos, buffer_len - pat_pos),
                              len |-> buffer_len - pat_pos, id |-> ret])], ret>>
        ELSE <<looped, ret>>

\* the bytes of a buffer that malloc returned and nobody wrote
Uninitialized == -1

\* a PatternsTree: the heap of its nodes and the root; calls are the
\* add_pattern_func calls the conversion made
convert_fpt_to_patterns_tree(full_tree) ==
    LET llen == full_tree.longest_pat_len
        buffer == [j \in 1..llen |-> Uninitialized]
        converted == convert_fpt_node_to_patterns_tree_node(
                         [nodes |-> <<>>, buffer |-> buffer, calls |-> <<>>],
                         full_tree.nodes, full_tree.root, llen, llen)
    IN  [nodes |-> converted[1].nodes, root |-> converted[2], calls |-> converted[1].calls]

\* the tree patterns_tree_build makes; the function ends without a return
\* statement, so its caller gets this tree or any other pointer
patterns_tree_build(lines) == convert_fpt_to_patterns_tree(fpt_build(lines))

\* a pointer that is not the tree
GarbagePointer == -1

\* the while loop of is_pattern_suffix
RECURSIVE is_pattern_suffix_loop(_, _, _)
is_pattern_suffix_loop(nodes, suf, cur) ==
    IF cur = 0 THEN 0
    ELSE IF cur = suf THEN 1
    ELSE is_pattern_suffix_loop(nodes, suf, nodes[cur].parent)

\* is_pattern_suffix that starts the walk at the parent of second
is_pattern_suffix_FromParent(nodes, first, second) ==
    IF first = 0 \/ second = 0 THEN 0
    ELSE is_pattern_suffix_loop(nodes, first, nodes[second].parent)

is_pattern_suffix(nodes, first, second) ==
    IF first = 0 THEN 0 ELSE is_pattern_suffix_loop(nodes, first, second)

-----------------------------------------------------------------------------
(* measure.c *)

\* the SuccessRate struct after memset
SuccessRateZero == [success |-> 0, false_pos |-> 0, false_neg |-> 0, partial_suc |-> 0]

\* the loop body with the arguments of is_pattern_suffix exchanged
measure_success_rate_step_Swapped(nodes, suc_rate, algo, real) ==
    IF real = algo THEN [suc_rate EXCEPT !.success = @ + 1]
    ELSE IF is_pattern_suffix(nodes, real, algo) = 1 THEN [suc_rate EXCEPT !.partial_suc = @ + 1]
    ELSE IF algo = null_pattern_id THEN [suc_rate EXCEPT !.false_neg = @ + 1]
    ELSE [suc_rate EXCEPT !.false_pos = @ + 1]

\* the body of the for loop of measure_success_rate
measure_success_rate_step(nodes, suc_rate, algo, real) ==
    IF real = algo THEN [suc_rate EXCEPT !.success = @ + 1]
    ELSE IF is_pattern_suffix(nodes, algo, real) = 1 THEN [suc_rate EXCEPT !.partial_suc = @ + 1]
    ELSE IF algo = null_pattern_id THEN [suc_rate EXCEPT !.false_neg = @ + 1]
    ELSE [suc_rate EXCEPT !.false_pos = @ + 1]

RECURSIVE measure_success_rate_loop(_, _, _, _, _, _)
measure_success_rate_loop(nodes, suc_rate, algo_results, real_results, n, i) ==
    IF i >= n THEN suc_rate
    ELSE measure_success_rate_loop(
             nodes,
             measure_success_rate_step(nodes, suc_rate, At(algo_results, i), At(real_results, i)),
             algo_results, real_results, n, i + 1)

\* nodes is the heap is_pattern_suffix walks
measure_success_rate(nodes, suc_rate, algo_results, real_results, n) ==
    measure_success_rate_loop(nodes, suc_rate, algo_results, real_results, n, 0)

-----------------------------------------------------------------------------
(* mpac.c *)

(* children[256] is kept for the bytes of ChildSlots, in increasing order   *)
(* in ByteOrder: no other byte is added or read, so every other entry      *)
(* stays 0 and the loops over i = 0..255 do nothing there.  TreeNodes live in a    *)
(* heap (a sequence, pointer = index, NULL = 0); states is the array       *)
(* states[0 .. n_states - 1].                                              *)

\* bytes outside the alphabet that are given to Aho-Corasick: the zero byte
\* and bytes from 0x80 on
AcWideBytes == {0, 128, 255}

\* the entries of children[256] that a byte of the specifications selects
ChildSlots == Alphabet \cup AcWideBytes

ByteOrder == SortedSeq(ChildSlots)

\* a TreeNode, and a State, after memset to 0
TreeNodeZero == [children |-> [b \in ChildSlots |-> 0], id |-> null_pattern_id]

StateZero == [children |-> [b \in ChildSlots |-> 0], failure_state |-> 0, id |-> null_pattern_id]

\* what a call that never returns gives its caller
DoesNotReturn == -2

\* TRUE, for every value: an argument of an operator is computed when it is
\* first used, and this makes the use.  convert_tree_to_states_loop computes
\* the states of a subtree with it before the loop goes on to the next byte
Evaluated(v) == v = v

\* returns <<states, from>>
RECURSIVE convert_tree_to_states(_, _, _, _)
\* the for loop of convert_tree_to_states, at the k-th byte
RECURSIVE convert_tree_to_states_loop(_, _, _, _, _, _)
convert_tree_to_states_loop(tree, node, states, pos, from, k) ==
    IF k > Len(ByteOrder) \/ ~Evaluated(from) THEN <<states, from>>
    ELSE LET i == ByteOrder[k]
             cur == tree[node].children[i]
         IN  IF cur # 0
             THEN LET sub == convert_tree_to_states(
                                 tree, cur, [states EXCEPT ![pos].children[i] = from], from)
                  IN  convert_tree_to_states_loop(tree, node, sub[1], pos, sub[2], k + 1)
             ELSE convert_tree_to_states_loop(
                      tree, node, [states EXCEPT ![pos].children[i] = 0], pos, from, k + 1)

convert_tree_to_states(tree, node, states, from) ==
    convert_tree_to_states_loop(tree, node, [states EXCEPT ![from].id = tree[node].id],
                                from, from + 1, 1)

\* the while loop of add_failure_to_state
RECURSIVE add_failure_to_state_loop(_, _, _)
add_failure_to_state_loop(states, fs, c) ==
    IF states[fs].children[c] = 0 /\ fs # 0
    THEN add_failure_to_state_loop(states, states[fs].failure_state, c)
    ELSE fs

add_failure_to_state(states, parent, c) ==
    LET fs == add_failure_to_state_loop(states, states[parent].failure_state, c)
        state == states[parent].children[c]
    IN  IF states[fs].children[c] # 0
        THEN [states EXCEPT ![state].failure_state = states[fs].children[c]]
        ELSE [states EXCEPT ![state].failure_state = 0]

\* the first for loop of add_failure_links; returns <<states, queue>>
RECURSIVE add_failure_links_first_level(_, _, _)
add_failure_links_first_level(states, q, k) ==
    IF k > Len(ByteOrder) THEN <<states, q>>
    ELSE LET curState == states[0].children[ByteOrder[k]]
         IN  IF curState # 0
             THEN add_failure_links_first_level(
                      [states EXCEPT ![curState].failure_state = 0], Append(q, curState), k + 1)
             ELSE add_failure_links_first_level(states, q, k + 1)

\* the for loop inside the while loop of add_failure_links; returns <<states, queue>>
RECURSIVE add_failure_links_children(_, _, _, _)
add_failure_links_children(states, q, curState, k) ==
    IF k > Len(ByteOrder) THEN <<states, q>>
    ELSE LET i == ByteOrder[k]
         IN  IF states[curState].children[i] # 0
             THEN add_failure_links_children(
                      add_failure_to_state(states, curState, i),
                      Append(q, states[curState].children[i]), curState, k + 1)
             ELSE add_failure_links_children(states, q, curState, k + 1)

\* the while loop of add_failure_links
RECURSIVE add_failure_links_loop(_, _)
add_failure_links_loop(states, q) ==
    IF q = <<>> THEN states
    ELSE LET done == add_failure_links_children(states, Tail(q), Head(q), 1)
         IN  add_failure_links_loop(done[1], done[2])

add_failure_links(states) ==
    LET first == add_failure_links_first_level(
                     [states EXCEPT ![0].failure_state = 0], <<0>>, 1)
    IN  add_failure_links_loop(first[1], first[2])

\* the AC struct; root and states share a union in the code
ac_create ==
    [ tree |-> <<TreeNodeZero>>, root |-> 1, states |-> <<>>,
      n_states |-> 1, current_state |-> 0, hangs |-> FALSE ]

\* the while loop of ac_add_pattern; returns <<cur, i>>
RECURSIVE ac_add_pattern_walk(_, _, _, _, _)
ac_add_pattern_walk(tree, cur, pat, len, i) ==
    IF i < len /\ tree[cur].children[At(pat, i)] # 0
    THEN ac_add_pattern_walk(tree, tree[cur].children[At(pat, i)], pat, len, i + 1)
    ELSE <<cur, i>>

\* the for loop of ac_add_pattern; returns <<tree, cur>>
RECURSIVE ac_add_pattern_grow(_, _, _, _, _)
ac_add_pattern_grow(tree, cur, pat, len, i) ==
    IF i >= len THEN <<tree, cur>>
    ELSE LET next == Len(tree) + 1
         IN  ac_add_pattern_grow(
                 [Append(tree, TreeNodeZero) EXCEPT ![cur].children[At(pat, i)] = next],
                 next, pat, len, i + 1)

ac_add_pattern(ac, pat, len, id) ==
    LET walked == ac_add_pattern_walk(ac.tree, ac.root, pat, len, 0)
        grown == ac_add_pattern_grow(ac.tree, walked[1], pat, len, walked[2])
    IN  [ac EXCEPT !.tree = [grown[1] EXCEPT ![grown[2]].id = id],
                   !.n_states = @ + (len - walked[2])]

ac_compile(ac) ==
    LET zeroed == [i \in 0..(ac.n_states - 1) |-> StateZero]
        converted == convert_tree_to_states(ac.tree, ac.root, zeroed, 0)
    IN  [ac EXCEPT !.states = add_failure_links(converted[1]), !.tree = <<>>, !.root = 0]

\* the while loop of ac_read_char; seen are the states it has left.  It
\* returns the state it stops in, or DoesNotReturn when it comes back to a
\* state it has left, from where it repeats for ever
RECURSIVE ac_read_char_loop(_, _, _, _)
ac_read_char_loop(states, current_state, c, seen) ==
    IF states[current_state].children[c] = 0 /\ current_state # 0
    THEN IF states[current_state].failure_state \in seen \cup {current_state}
         THEN DoesNotReturn
         ELSE ac_read_char_loop(states, states[current_state].failure_state, c,
                                seen \cup {current_state})
    ELSE current_state

\* returns <<struct, id>>
ac_read_char(ac, c) ==
    LET current_state == ac_read_char_loop(ac.states, ac.current_state, c, {})
    IN  IF current_state = DoesNotReturn
        THEN <<[ac EXCEPT !.hangs = TRUE], DoesNotReturn>>
        ELSE IF ac.states[current_state].children[c] # 0
        THEN <<[ac EXCEPT !.current_state = ac.states[current_state].children[c]],
               ac.states[ac.states[current_state].children[c]].id>>
        ELSE <<[ac EXCEPT !.current_state = current_state], ac.states[current_state].id>>

\* ac_reset that leaves the current state
ac_reset_Stay(ac) == ac

ac_reset(ac) == [ac EXCEPT !.current_state = 0]

(***************************************************************************)
(* The low-memory Aho-Corasick: the children of a state are a list of      *)
(* (c, state) pairs, and every state has a suffix link                     *)
(***************************************************************************)

LmacStateZero == [children |-> <<>>, failure_state |-> 0, suffix_link |-> 0,
                  id |-> null_pattern_id]

\* the new node becomes the head of the list
children_list_add(list, c, state) == <<[c |-> c, state |-> state]>> \o list

\* the state of the first node of the list with the character c, or 0
find_child(list, c) ==
    IF \E k \in 1..Len(list) : list[k].c = c
    THEN list[CHOOSE k \in 1..Len(list) :
                  list[k].c = c /\ \A j \in 1..(k - 1) : list[j].c # c].state
    ELSE 0

find_child_from_index(states, index, c) == find_child(states[index].children, c)

\* returns <<states, from>>
RECURSIVE lmac_convert_tree_to_states(_, _, _, _)
\* the for loop of convert_tree_to_states, at the k-th byte
RECURSIVE lmac_convert_tree_to_states_loop(_, _, _, _, _, _)
lmac_convert_tree_to_states_loop(tree, node, states, pos, from, k) ==
    IF k > Len(ByteOrder) THEN <<states, from>>
    ELSE LET i == ByteOrder[k]
             cur == tree[node].children[i]
         IN  IF cur # 0
             THEN LET sub == lmac_convert_tree_to_states(
                                 tree, cur,
                                 [states EXCEPT ![pos].children =
                                                     children_list_add(@, i, from)],
                                 from)
                  IN  lmac_convert_tree_to_states_loop(tree, node, sub[1], pos, sub[2], k + 1)
             ELSE lmac_convert_tree_to_states_loop(tree, node, states, pos, from, k + 1)

lmac_convert_tree_to_states(tree, node, states, from) ==
    lmac_convert_tree_to_states_loop(tree, node, [states EXCEPT ![from].id = tree[node].id],
                                     from, from + 1, 1)

\* the while loop of add_failure_to_state; returns fs_child
RECURSIVE lmac_add_failure_to_state_loop(_, _, _)
lmac_add_failure_to_state_loop(states, fs, c) ==
    IF fs # 0 /\ find_child_from_index(states, fs, c) = 0
    THEN lmac_add_failure_to_state_loop(states, states[fs].failure_state, c)
    ELSE find_child_from_index(states, fs, c)

lmac_add_failure_to_state(states, parent, c, child) ==
    LET fs_child == lmac_add_failure_to_state_loop(states, states[parent].failure_state, c)
    IN  [states EXCEPT ![child].failure_state = fs_child,
                       ![child].suffix_link =
                           IF states[child].id = null_pattern_id
                           THEN states[fs_child].suffix_link
                           ELSE child]

\* the first loop of add_failure_links, over the list of the root from its
\* k-th node; returns <<states, queue>>
RECURSIVE lmac_add_failure_links_first_level(_, _, _)
lmac_add_failure_links_first_level(states, q, k) ==
    IF k > Len(states[0].children) THEN <<states, q>>
    ELSE LET cur_state == states[0].children[k].state
         IN  lmac_add_failure_links_first_level(
                 [states EXCEPT ![cur_state].failure_state = 0,
                                ![cur_state].suffix_link =
                                    IF states[cur_state].id = null_pattern_id
                                    THEN 0 ELSE cur_state],
                 Append(q, cur_state), k + 1)

\* the loop over the children inside the while loop of add_failure_links;
\* returns <<states, queue>>
RECURSIVE lmac_add_failure_links_children(_, _, _, _)
lmac_add_failure_links_children(states, q, cur_state, k) ==
    IF k > Len(states[cur_state].children) THEN <<states, q>>
    ELSE LET node == states[cur_state].children[k]
         IN  lmac_add_failure_links_children(
                 lmac_add_failure_to_state(states, cur_state, node.c, node.state),
                 Append(q, node.state), cur_state, k + 1)

\* the while loop of add_failure_links
RECURSIVE lmac_add_failure_links_loop(_, _)
lmac_add_failure_links_loop(states, q) ==
    IF q = <<>> THEN states
    ELSE LET done == lmac_add_failure_links_children(states, Tail(q), Head(q), 1)
         IN  lmac_add_failure_links_loop(done[1], done[2])

lmac_add_failure_links(states) ==
    LET first == lmac_add_failure_links_first_level(
                     [states EXCEPT ![0].failure_state = 0, ![0].suffix_link = 0],
                     <<>>, 1)
    IN  lmac_add_failure_links_loop(first[1], first[2])

lmac_create ==
    [ tree |-> <<TreeNodeZero>>, root |-> 1, states |-> <<>>,
      n_states |-> 1, current_state |-> 0, hangs |-> FALSE ]

\* the child tables are indexed with (unsigned char)pat[i]
lmac_add_pattern(ac, pat, len, id) ==
    LET walked == ac_add_pattern_walk(ac.tree, ac.root, pat, len, 0)
        grown == ac_add_pattern_grow(ac.tree, walked[1], pat, len, walked[2])
    IN  [ac EXCEPT !.tree = [grown[1] EXCEPT ![grown[2]].id = id],
                   !.n_states = @ + (len - walked[2])]

lmac_compile(ac) ==
    LET zeroed == [i \in 0..(ac.n_states - 1) |-> LmacStateZero]
        converted == lmac_convert_tree_to_states(ac.tree, ac.root, zeroed, 0)
    IN  [ac EXCEPT !.states = lmac_add_failure_links(converted[1]), !.tree = <<>>,
                   !.root = 0]

\* the while loop of lmac_read_char; returns <<current_state, current_child>>
RECURSIVE lmac_read_char_loop(_, _, _)
lmac_read_char_loop(states, current_state, c) ==
    IF current_state # 0 /\ find_child_from_index(states, current_state, c) = 0
    THEN lmac_read_char_loop(states, states[current_state].failure_state, c)
    ELSE <<current_state, find_child_from_index(states, current_state, c)>>

\* lmac_read_char that returns the id of the state it stops in
lmac_read_char_NoSuffix(ac, c) ==
    LET found == lmac_read_char_loop(ac.states, ac.current_state, c)
        next == IF found[2] # 0 THEN found[2] ELSE found[1]
    IN  <<[ac EXCEPT !.current_state = next], ac.states[next].id>>
\* returns <<struct, id>>
lmac_read_char(ac, c) ==
    LET found == lmac_read_char_loop(ac.states, ac.current_state, c)
        next == IF found[2] # 0 THEN found[2] ELSE found[1]
    IN  <<[ac EXCEPT !.current_state = next],
          ac.states[ac.states[next].suffix_link].id>>

lmac_reset(ac) == [ac EXCEPT !.current_state = 0]

-----------------------------------------------------------------------------
(* mpbg.c *)

\* the length bg_new was given
bg_get_length(bg) == bg.n

\* the MPBGStruct after memset: pats is the list before compilation, the
\* array after it
mpbg_create == [pats |-> <<>>, n_pats |-> 0]

\* r is the value rand() gives to bg_new
mpbg_add_pattern(mpbg, pat, len, id, p, r) ==
    [mpbg EXCEPT !.pats = <<[obj |-> bg_new(pat, len, p, r), id |-> id]>> \o @,
                 !.n_pats = @ + 1]

\* the array takes the entries in the order of the list
mpbg_compile(mpbg) == mpbg

\* the for loop of mpbg_read_char from the i-th entry on; returns
\* <<pats, longest_id>>.  mpbg_read_char_entry is the body of the loop for
\* the i-th entry, read being the result of its bg_read_char call.
RECURSIVE mpbg_read_char_loop(_, _, _, _, _, _)
mpbg_read_char_entry(pats, n_pats, c, i, longest, longest_id, read) ==
    IF read[2] # 0 /\ bg_get_length(read[1]) > longest
    THEN mpbg_read_char_loop([pats EXCEPT ![i].obj = read[1]], n_pats, c, i + 1,
                             bg_get_length(read[1]), pats[i].id)
    ELSE mpbg_read_char_loop([pats EXCEPT ![i].obj = read[1]], n_pats, c, i + 1,
                             longest, longest_id)

mpbg_read_char_loop(pats, n_pats, c, i, longest, longest_id) ==
    IF i > n_pats THEN <<pats, longest_id>>
    ELSE mpbg_read_char_entry(pats, n_pats, c, i, longest, longest_id,
                              bg_read_char(pats[i].obj, c))

mpbg_reset(mpbg) ==
    [mpbg EXCEPT !.pats = [i \in DOMAIN @ |-> [@[i] EXCEPT !.obj = bg_reset(@)]]]

\* returns <<struct, id>>
mpbg_read_char(mpbg, c) ==
    LET looped == mpbg_read_char_loop(mpbg.pats, mpbg.n_pats, c, 1, 0, null_pattern_id)
    IN  <<[mpbg EXCEPT !.pats = looped[1]], looped[2]>>

-----------------------------------------------------------------------------
(* The stand-alone KMP matcher: kmp_new, then kmp_read_char per byte *)

IdleKmp ==
    /\ kmpPattern = Idle
    /\ kmpText = Idle
    /\ kmp = Idle
    /\ kmpRet = Idle
    /\ kmpSteps = Idle

IdleBg ==
    /\ bgObj = Idle
    /\ bgRet = Idle

IdleTree ==
    /\ dictLines = Idle
    /\ fptFill = Idle
    /\ ptState = Idle
    /\ ptRet = Idle
    /\ sufQuery = Idle

IdleMeasure ==
    /\ sucRate = Idle
    /\ algoResults = Idle
    /\ realResults = Idle

IdleAc ==
    /\ acObj = Idle
    /\ acStream = Idle
    /\ acRet = Idle

IdleMpbg ==
    /\ mpbgObj = Idle
    /\ mpbgStream = Idle
    /\ mpbgRet = Idle

IdleFp ==
    /\ fpIn = Idle
    /\ fpOut = Idle

IdleField == fieldCells = Idle

IdleReset == rsState = Idle

IdleContract == ctState = Idle

IdleParser == psState = Idle

IdleNew == bnState = Idle

IdleBytes == abState = Idle

IdleInverse == ciState = Idle

IdleHarness == hsState = Idle

IdleMore == IdleBytes /\ IdleInverse /\ IdleHarness

IdleExtra == IdleContract /\ IdleParser /\ IdleNew /\ IdleMore

IdleRest == IdleFp /\ IdleField /\ IdleReset /\ IdleExtra

\* the variables of the patterns tree after patterns_tree_build(lines), for
\* the specifications that start from a built tree
BuiltTree(lines) ==
    /\ dictLines = lines
    /\ LET tree == patterns_tree_build(lines)
       IN  /\ ptState = [built |-> TRUE, nodes |-> tree.nodes, root |-> tree.root,
                         calls |-> tree.calls]
           /\ ptRet \in {tree.root, GarbagePointer}
    /\ fptFill = [tree |-> [nodes |-> <<>>, root |-> 0, longest_pat_len |-> 0],
                  max_pat_len |-> fpt_build(lines).longest_pat_len]
    /\ sufQuery = [asked |-> FALSE, first |-> 0, second |-> 0, ret |-> 0]

\* the pattern and the text of the test at the end of kmprt.c
KmpTestPattern == Rep(65, 17) \o <<66>>

KmpTestText ==
    Rep(65, 17) \o <<66>> \o Rep(65, 6) \o <<66>> \o Rep(65, 17) \o <<66>> \o Rep(65, 7)

\* a pattern whose failure chains are long enough to keep the buffer busy
KmpChainPattern == Rep(97, 8) \o <<98>>

\* how far the text of that pattern is followed
MaxKmpChainText == 14

\* a pattern of period 2, and a text that breaks its period twice: the
\* second time while the bytes that arrived during the first failure loop
\* are still in the buffer
KmpPeriodicPattern == <<97, 98, 97, 98, 97, 98, 97, 98, 97, 98, 97, 98, 97, 98>>

KmpPeriodicText ==
    Sub(KmpPeriodicPattern, 0, 13) \o <<97>> \o <<98, 97, 98, 97>> \o KmpPeriodicPattern

\* the bytes the stream may deliver next
KmpNextBytes ==
    IF kmpPattern = KmpTestPattern
    THEN IF Len(kmpText) < Len(KmpTestText) THEN {At(KmpTestText, Len(kmpText))} ELSE {}
    ELSE IF kmpPattern = KmpPeriodicPattern
    THEN IF Len(kmpText) < Len(KmpPeriodicText)
         THEN {At(KmpPeriodicText, Len(kmpText))} ELSE {}
    ELSE IF kmpPattern = KmpChainPattern
    THEN IF Len(kmpText) < MaxKmpChainText THEN Alphabet ELSE {}
    ELSE IF Len(kmpText) < MaxKmpText THEN Alphabet ELSE {}

InitKmp ==
    /\ kmpPattern \in StringsUpTo(Alphabet, MaxKmpPat)
                     \cup {KmpTestPattern, KmpChainPattern, KmpPeriodicPattern}
    /\ kmpText = <<>>
    /\ kmp = kmp_new(kmpPattern, Len(kmpPattern))
    /\ kmpRet = 0
    /\ kmpSteps = 0
    /\ IdleBg /\ IdleTree /\ IdleMeasure /\ IdleAc /\ IdleMpbg /\ IdleRest

KmpReadChar ==
    \E c \in KmpNextBytes :
        /\ LET r == kmp_read_char(kmp, c)
           IN  /\ kmp' = r[1]
               /\ kmpRet' = r[2]
               /\ kmpSteps' = r[1].steps
        /\ kmpText' = Append(kmpText, c)
        /\ UNCHANGED <<kmpPattern, bgVars, treeVars, measureVars, acVars, mpbgVars, restVars>>

NextKmp == KmpReadChar

SpecKmp == InitKmp /\ [][NextKmp]_vars

-----------------------------------------------------------------------------
(* One Breslauer-Galil engine: bg_new, then bg_read_char per byte *)

\* the field size of the test at the end of bgps.c
BgPrime == 101

\* values rand() % p may give to r
BgRs == {2, 76}

\* the pattern and the stream of the test at the end of bgps.c
BgTestPattern == <<65, 66, 67, 68, 65, 66, 68, 65, 66, 67>>

BgTestText ==
    <<65, 66, 67, 68, 65, 66, 67, 68, 65, 66, 68, 65, 66, 67, 68, 65, 66, 68, 65, 66,
      67, 68, 65, 66, 66, 65, 66, 67, 68, 65, 66, 68, 65, 66, 67, 68, 65, 66, 68, 66,
      65, 68, 70, 83, 71>>

\* patterns of length 9: period 1 throughout, period 1 broken at the last byte,
\* period 8 broken at the last byte (the only one with a stage above the
\* first), period 2 throughout, and no period in the first 8 bytes
BgPatterns ==
    { Rep(97, 9),
      Rep(97, 8) \o <<98>>,
      <<97>> \o Rep(98, 8),
      <<97, 98, 97, 98, 97, 98, 97, 98, 97>>,
      <<97, 97, 97, 98, 98, 97, 98, 98, 97>>,
      BgTestPattern }

BgNextBytes ==
    IF bgObj.pattern = BgTestPattern
    THEN IF Len(bgObj.stream) < Len(BgTestText) THEN {At(BgTestText, Len(bgObj.stream))} ELSE {}
    ELSE IF Len(bgObj.stream) < MaxBgText THEN Alphabet ELSE {}

InitBg ==
    /\ \E pattern \in BgPatterns, r \in BgRs :
           bgObj = bg_new(pattern, Len(pattern), BgPrime, r)
    /\ bgRet = 0
    /\ IdleKmp /\ IdleTree /\ IdleMeasure /\ IdleAc /\ IdleMpbg /\ IdleRest

BgReadChar ==
    \E c \in BgNextBytes :
        /\ LET r == bg_read_char(bgObj, c)
           IN  /\ bgObj' = r[1]
               /\ bgRet' = r[2]
        /\ UNCHANGED <<kmpVars, treeVars, measureVars, acVars, mpbgVars, restVars>>

NextBg == BgReadChar

SpecBg == InitBg /\ [][NextBg]_vars

\* patterns of length 9 with a stage above the first: the first 8 bytes
\* have the period 1, 8, 3 (two periods and 2 bytes more) and 5 (one period
\* and 3 bytes more), and the last byte breaks the period
BgStagePatterns ==
    { Rep(97, 8) \o <<98>>,
      <<97>> \o Rep(98, 8),
      <<97, 98, 97, 97, 98, 97, 97, 98, 98>>,
      <<97, 97, 98, 97, 98, 97, 97, 98, 98>> }

InitBgStages ==
    /\ \E pattern \in BgStagePatterns, r \in BgRs :
           bgObj = bg_new(pattern, Len(pattern), BgPrime, r)
    /\ bgRet = 0
    /\ IdleKmp /\ IdleTree /\ IdleMeasure /\ IdleAc /\ IdleMpbg /\ IdleRest

SpecBgStages == InitBgStages /\ [][NextBg]_vars

\* patterns with two and with three stages: 16 bytes of period 1 and then a
\* byte that breaks it (n = 33 and n = 65), and 16 bytes of period 16 whose
\* period breaks at the index 18 (n = 33)
BgLongPatterns ==
    { Rep(97, 16) \o <<98>> \o Rep(97, 16),
      Rep(97, 16) \o <<98>> \o Rep(97, 48),
      Rep(97, 15) \o <<98, 97, 97, 98>> \o Rep(97, 14) }

\* the streams these engines read: runs of the period, occurrences of the
\* patterns, and occurrences of the first 16 bytes that do not go on
BgLongTexts ==
    { Rep(97, MaxBgLongText),
      Rep(97, 18) \o <<98>> \o Rep(97, 16) \o <<98>> \o Rep(97, 16) \o <<98, 98>>,
      Rep(97, 16) \o <<98>> \o Rep(97, 48) \o <<98, 97>>,
      <<98>> \o Rep(97, 15) \o <<98, 97, 97, 98>> \o Rep(97, 14) \o <<98, 97, 97, 98>>
          \o Rep(97, 15) \o <<98>> \o Rep(97, 15) \o <<98, 98>> }

BgLongNextBytes ==
    { At(text, Len(bgObj.stream)) :
        text \in { t \in BgLongTexts :
                     /\ Len(t) > Len(bgObj.stream)
                     /\ Sub(t, 0, Len(bgObj.stream)) = bgObj.stream } }

InitBgLong ==
    /\ \E pattern \in BgLongPatterns, r \in BgRs :
           bgObj = bg_new(pattern, Len(pattern), BgPrime, r)
    /\ bgRet = 0
    /\ IdleKmp /\ IdleTree /\ IdleMeasure /\ IdleAc /\ IdleMpbg /\ IdleRest

BgLongReadChar ==
    \E c \in BgLongNextBytes :
        /\ LET r == bg_read_char(bgObj, c)
           IN  /\ bgObj' = r[1]
               /\ bgRet' = r[2]
        /\ UNCHANGED <<kmpVars, treeVars, measureVars, acVars, mpbgVars, restVars>>

NextBgLong == BgLongReadChar

SpecBgLong == InitBgLong /\ [][NextBgLong]_vars

-----------------------------------------------------------------------------
(* bg_new alone: the engine is built for every pattern over the alphabet   *)
(* just above the short patterns, and for longer patterns whose period     *)
(* stops at the end of the 2^loglogn prefix, later, or never               *)

BgNewPatterns ==
    UNION { StringsOfLen(Alphabet, n) : n \in (BG_SHORT_PATTERN_LENGTH + 1)..MaxNewPatLen }
    \cup BgLongPatterns
    \cup { Rep(97, 17), Rep(97, 16) \o <<98>>, Rep(97, 31) \o <<98>>,
           Rep(97, 32) \o <<98>>, Rep(97, 33), Rep(97, 32) \o <<98, 97, 97>>,
           <<97, 98, 97>> \o Rep(98, 14), <<97, 98, 98>> \o Rep(97, 30),
           Rep(97, 7) \o <<98>> \o Rep(97, 7) \o <<98>> \o Rep(97, 7) \o <<98>>
               \o Rep(97, 7) \o <<98>> \o Rep(97, 3) }

InitBgNew ==
    /\ \E pattern \in BgNewPatterns :
           bnState = [pattern |-> pattern, n |-> Len(pattern), built |-> FALSE,
                      bg |-> KmpNull]
    /\ IdleKmp /\ IdleBg /\ IdleTree /\ IdleMeasure /\ IdleAc /\ IdleMpbg
    /\ IdleFp /\ IdleField /\ IdleReset /\ IdleContract /\ IdleParser /\ IdleMore

BgNew ==
    /\ ~bnState.built
    /\ \E r \in BgRs :
           bnState' = [bnState EXCEPT !.built = TRUE,
                                      !.bg = bg_new(bnState.pattern, bnState.n, BgPrime, r)]
    /\ UNCHANGED <<kmpVars, bgVars, treeVars, measureVars, acVars, mpbgVars,
                   fpVars, fieldVars, resetVars, contractVars, parserVars, moreVars>>

NextBgNew == BgNew

SpecBgNew == InitBgNew /\ [][NextBgNew]_vars

-----------------------------------------------------------------------------
(* The patterns tree: the dictionary is read line by line into the full    *)
(* patterns tree, patterns_tree_build converts it, and is_pattern_suffix   *)
(* is asked about the ids the conversion handed out                        *)

DictPatterns == StringsUpTo(Alphabet, MaxTreePatLen)

NotBuilt == [built |-> FALSE, nodes |-> <<>>, root |-> 0, calls |-> <<>>]

NotAsked == [asked |-> FALSE, first |-> 0, second |-> 0, ret |-> 0]

\* the pattern ids add_pattern_func was given
PatternIds == {ptState.calls[i].id : i \in 1..Len(ptState.calls)}

InitTree ==
    /\ dictLines = <<>>
    /\ fptFill = [tree |-> fpt_new, max_pat_len |-> 0]
    /\ ptState = NotBuilt
    /\ ptRet = 0
    /\ sufQuery = NotAsked
    /\ IdleKmp /\ IdleBg /\ IdleMeasure /\ IdleAc /\ IdleMpbg /\ IdleRest

\* one more line of the dictionary file: an iteration of the getline loop
FptFillLine ==
    /\ ~ptState.built
    /\ Len(dictLines) < MaxDictLines
    /\ \E pat \in DictPatterns :
           LET lines == Append(dictLines, pat)
               filled == fpt_fill_with_dict_file(fptFill.tree, 0, lines, Len(dictLines),
                                                 fptFill.max_pat_len)
           IN  /\ dictLines' = lines
               /\ fptFill' = [tree |-> filled[1], max_pat_len |-> filled[2]]
    /\ UNCHANGED <<ptState, ptRet, sufQuery, kmpVars, bgVars, measureVars, acVars, mpbgVars, restVars>>

\* the end of the file: the rest of patterns_tree_build
PatternsTreeBuild ==
    /\ ~ptState.built
    /\ LET full_tree == [fptFill.tree EXCEPT !.longest_pat_len = fptFill.max_pat_len]
           tree == convert_fpt_to_patterns_tree(full_tree)
       IN  /\ ptState' = [built |-> TRUE, nodes |-> tree.nodes, root |-> tree.root,
                          calls |-> tree.calls]
           /\ ptRet' \in {tree.root, GarbagePointer}
    /\ fptFill' = [tree |-> [nodes |-> <<>>, root |-> 0, longest_pat_len |-> 0],
                   max_pat_len |-> fptFill.max_pat_len]
    /\ UNCHANGED <<dictLines, sufQuery, kmpVars, bgVars, measureVars, acVars, mpbgVars, restVars>>

IsPatternSuffix ==
    /\ ptState.built
    /\ \E first \in PatternIds \cup {null_pattern_id}, second \in PatternIds \cup {null_pattern_id} :
           sufQuery' = [asked |-> TRUE, first |-> first, second |-> second,
                        ret |-> is_pattern_suffix(ptState.nodes, first, second)]
    /\ UNCHANGED <<dictLines, fptFill, ptState, ptRet, kmpVars, bgVars, measureVars, restVars,
                   acVars, mpbgVars>>

NextTree == FptFillLine \/ PatternsTreeBuild \/ IsPatternSuffix

SpecTree == InitTree /\ [][NextTree]_vars

-----------------------------------------------------------------------------
(* The success classification: a built patterns tree, then                 *)
(* measure_success_rate on chunks of results                               *)

\* dictionaries with a chain of suffixes, with unrelated patterns, and with
\* a pattern that gets two children
MeasureDictionaries ==
    { <<<<98>>, <<97, 98>>, <<97, 97, 98>>>>,
      <<<<97, 98>>, <<98, 98>>, <<98>>>>,
      <<<<97>>, <<98>>, <<98, 97>>>>,
      <<<<97, 97>>, <<97, 98>>>> }

InitMeasure ==
    /\ \E lines \in MeasureDictionaries : BuiltTree(lines)
    /\ sucRate = SuccessRateZero
    /\ algoResults = <<>>
    /\ realResults = <<>>
    /\ IdleKmp /\ IdleBg /\ IdleAc /\ IdleMpbg /\ IdleRest

MeasureSuccessRate ==
    /\ \E n \in 1..MaxChunk :
           /\ Len(algoResults) + n <= MaxMeasured
           /\ \E algo_results \in [1..n -> PatternIds \cup {null_pattern_id}],
                 real_results \in [1..n -> PatternIds \cup {null_pattern_id}] :
                  /\ sucRate' = measure_success_rate(ptState.nodes, sucRate,
                                                     algo_results, real_results, n)
                  /\ algoResults' = algoResults \o algo_results
                  /\ realResults' = realResults \o real_results
    /\ UNCHANGED <<treeVars, kmpVars, bgVars, acVars, mpbgVars, restVars>>

NextMeasure == MeasureSuccessRate

SpecMeasure == InitMeasure /\ [][NextMeasure]_vars

-----------------------------------------------------------------------------
(* Aho-Corasick: the patterns of a built tree are added with               *)
(* ac_add_pattern, then ac_compile and ac_reset, then ac_read_char per     *)
(* byte                                                                    *)

AcDictionaries ==
    UNION {[1..k -> StringsUpTo(Alphabet, MaxAcPatLen)] : k \in 1..MaxAcDictLines}

\* ac_add_pattern for the calls from the k-th on
RECURSIVE AddPatternsToAc(_, _, _)
AddPatternsToAc(ac, calls, k) ==
    IF k > Len(calls) THEN ac
    ELSE AddPatternsToAc(ac_add_pattern(ac, calls[k].pat, calls[k].len, calls[k].id),
                         calls, k + 1)

InitAc ==
    /\ \E lines \in AcDictionaries : BuiltTree(lines)
    /\ acObj = ac_reset(ac_compile(AddPatternsToAc(ac_create, ptState.calls, 1)))
    /\ acStream = <<>>
    /\ acRet = null_pattern_id
    /\ IdleKmp /\ IdleBg /\ IdleMeasure /\ IdleMpbg /\ IdleRest

AcReadChar ==
    /\ ~acObj.hangs
    /\ Len(acStream) < MaxAcText
    /\ \E c \in Alphabet :
           LET read == ac_read_char(acObj, c)
           IN  /\ acObj' = read[1]
               /\ acRet' = read[2]
               /\ acStream' = Append(acStream, c)
    /\ UNCHANGED <<treeVars, kmpVars, bgVars, measureVars, mpbgVars, restVars>>

\* the reset before the next stream
AcReset ==
    /\ ~acObj.hangs
    /\ acStream # <<>>
    /\ acObj' = ac_reset(acObj)
    /\ acStream' = <<>>
    /\ UNCHANGED <<acRet, treeVars, kmpVars, bgVars, measureVars, mpbgVars, restVars>>

NextAc == AcReadChar \/ AcReset

SpecAc == InitAc /\ [][NextAc]_vars

(***************************************************************************)
(* The low-memory Aho-Corasick over a dictionary: lmac_create, one         *)
(* lmac_add_pattern per pattern, lmac_compile and lmac_reset, then         *)
(* lmac_read_char per byte.  acObj holds the object, acStream the bytes    *)
(* read since the last reset and acRet the last returned id                *)
(***************************************************************************)

\* lmac_add_pattern for the calls from the k-th on
RECURSIVE AddPatternsToLmac(_, _, _)
AddPatternsToLmac(ac, calls, k) ==
    IF k > Len(calls) THEN ac
    ELSE AddPatternsToLmac(lmac_add_pattern(ac, calls[k].pat, calls[k].len, calls[k].id),
                           calls, k + 1)

InitLmac ==
    /\ \E lines \in AcDictionaries : BuiltTree(lines)
    /\ acObj = lmac_reset(lmac_compile(AddPatternsToLmac(lmac_create, ptState.calls, 1)))
    /\ acStream = <<>>
    /\ acRet = null_pattern_id
    /\ IdleKmp /\ IdleBg /\ IdleMeasure /\ IdleMpbg /\ IdleRest

LmacReadChar ==
    /\ Len(acStream) < MaxAcText
    /\ \E c \in Alphabet :
           LET read == lmac_read_char(acObj, c)
           IN  /\ acObj' = read[1]
               /\ acRet' = read[2]
               /\ acStream' = Append(acStream, c)
    /\ UNCHANGED <<treeVars, kmpVars, bgVars, measureVars, mpbgVars, restVars>>

\* the reset before the next stream
LmacReset ==
    /\ acStream # <<>>
    /\ acObj' = lmac_reset(acObj)
    /\ acStream' = <<>>
    /\ UNCHANGED <<acRet, treeVars, kmpVars, bgVars, measureVars, mpbgVars, restVars>>

NextLmac == LmacReadChar \/ LmacReset

SpecLmac == InitLmac /\ [][NextLmac]_vars

-----------------------------------------------------------------------------
(* The multi-pattern Breslauer-Galil matcher: the patterns of a built tree *)
(* are added with mpbg_add_pattern, then mpbg_compile, then                *)
(* mpbg_read_char per byte                                                 *)

(* mpbg_add_pattern gives bg_new the field size 2147483647, whose products *)
(* are beyond TLC's integers; the model gives it the field size of the     *)
(* test of bgps.c.  A smaller field only makes collisions more frequent,   *)
(* and the history field collision of each engine records them.            *)
MpbgPrime == BgPrime

\* short patterns only; a long pattern and one of its suffixes; two long
\* patterns and a short one
MpbgDictionaries ==
    { <<<<98>>, <<97, 98>>, <<97, 97, 98>>>>,
      <<<<97, 97>>, Rep(97, 9)>>,
      <<Rep(97, 8) \o <<98>>, <<97, 98>>>>,
      <<<<98, 97>>, <<97, 98, 97, 98, 97, 98, 97, 98, 97>>, Rep(97, 9)>> }

\* mpbg_add_pattern for the calls from the k-th on
RECURSIVE AddPatternsToMpbg(_, _, _, _)
AddPatternsToMpbg(mpbg, calls, k, r) ==
    IF k > Len(calls) THEN mpbg
    ELSE AddPatternsToMpbg(
             mpbg_add_pattern(mpbg, calls[k].pat, calls[k].len, calls[k].id, MpbgPrime, r),
             calls, k + 1, r)

InitMpbg ==
    /\ \E lines \in MpbgDictionaries : BuiltTree(lines)
    /\ \E r \in BgRs :
           mpbgObj = mpbg_compile(AddPatternsToMpbg(mpbg_create, ptState.calls, 1, r))
    /\ mpbgStream = <<>>
    /\ mpbgRet = null_pattern_id
    /\ IdleKmp /\ IdleBg /\ IdleMeasure /\ IdleAc /\ IdleRest

MpbgReadChar ==
    /\ Len(mpbgStream) < MaxMpbgText
    /\ \E c \in Alphabet :
           LET read == mpbg_read_char(mpbgObj, c)
           IN  /\ mpbgObj' = read[1]
               /\ mpbgRet' = read[2]
               /\ mpbgStream' = Append(mpbgStream, c)
    /\ UNCHANGED <<treeVars, kmpVars, bgVars, measureVars, acVars, restVars>>

NextMpbg == MpbgReadChar

SpecMpbg == InitMpbg /\ [][NextMpbg]_vars

-----------------------------------------------------------------------------
(* The fingerprint of a concatenation: calc_fp of the prefix, of the suffix *)
(* and of the whole array, then calc_fp_from_prefix_suffix                 *)

\* the byte values 0x00, 'A', 0x7F, 0x80 and 0xFF
FpBytes == {0, 65, 127, 128, 255}

\* field sizes and values of r
FpPrimes == {101, 251}

FpRs == {2, 76}

\* the value of a char that holds the byte b: char is a signed type on some
\* builds and an unsigned type on others
CharOf(b, char_signed) == IF char_signed /\ b >= 128 THEN b - 256 ELSE b

CharsOf(bytes, char_signed) == [i \in 1..Len(bytes) |-> CharOf(bytes[i], char_signed)]

FpStrings == {<<>>} \cup StringsUpTo(FpBytes, MaxFpLen)

InitFp ==
    /\ \E char_signed \in BOOLEAN, p \in FpPrimes, r \in FpRs, a \in FpStrings, b \in FpStrings :
           fpIn = [char_signed |-> char_signed, p |-> p,
                   r |-> FieldVal(r, calculate_inverse(r, p)), a |-> a, b |-> b]
    /\ fpOut = [calls |-> 0, whole |-> 0, prefix |-> 0, suffix |-> 0,
                rn |-> FieldVal(1, 1), joined |-> 0]
    /\ IdleKmp /\ IdleBg /\ IdleTree /\ IdleMeasure /\ IdleAc /\ IdleMpbg /\ IdleField /\ IdleReset /\ IdleExtra

\* the three calc_fp calls
FpCalc ==
    /\ fpOut.calls = 0
    /\ LET a == CharsOf(fpIn.a, fpIn.char_signed)
           b == CharsOf(fpIn.b, fpIn.char_signed)
       IN  fpOut' = [fpOut EXCEPT
                        !.calls = 1,
                        !.whole = calc_fp(a \o b, Len(a) + Len(b), fpIn.r, fpIn.p)[1],
                        !.prefix = calc_fp(a, Len(a), fpIn.r, fpIn.p)[1],
                        !.rn = calc_fp(a, Len(a), fpIn.r, fpIn.p)[2],
                        !.suffix = calc_fp(b, Len(b), fpIn.r, fpIn.p)[1]]
    /\ UNCHANGED <<fpIn, kmpVars, bgVars, treeVars, measureVars, acVars, mpbgVars, fieldVars, resetVars, extraVars>>

\* the calc_fp_from_prefix_suffix call
FpJoin ==
    /\ fpOut.calls = 1
    /\ fpOut' = [fpOut EXCEPT
                     !.calls = 2,
                     !.joined = calc_fp_from_prefix_suffix(fpOut.prefix, fpOut.suffix,
                                                           fpOut.rn, fpIn.p)]
    /\ UNCHANGED <<fpIn, kmpVars, bgVars, treeVars, measureVars, acVars, mpbgVars, fieldVars, resetVars, extraVars>>

NextFp == FpCalc \/ FpJoin

SpecFp == InitFp /\ [][NextFp]_vars

-----------------------------------------------------------------------------
(* The field functions on two FieldVal objects, with every aliasing of     *)
(* their arguments, the rn output of calc_fp and calc_fp_with_prefix, and  *)
(* an engine created with the same field and r reading a stream            *)

FieldPrimes == {101}

FieldRs == {2, 76}

\* the addresses of the FieldVal objects, which hold r and r * r at first;
\* last is the last call made on them and whether its dst was its first
\* and its second source; inverses holds what calculate_inverse returns for
\* each value of the field
FieldAddrs == {1, 2}

\* the char arrays given to calc_fp and calc_fp_with_prefix
FieldSeqs == {<<97>>, <<97, 98>>, <<98, 97, 98>>}

\* period 1 broken at the last byte: the pattern with a stage above the first
FieldBgPattern == Rep(97, 8) \o <<98>>

InitField ==
    /\ \E p \in FieldPrimes, r \in FieldRs :
           /\ fieldCells = [p |-> p, r |-> FieldVal(r, calculate_inverse(r, p)),
                            mem |-> <<FieldVal(r, calculate_inverse(r, p)),
                                      field_mul(FieldVal(r, calculate_inverse(r, p)),
                                                FieldVal(r, calculate_inverse(r, p)), p)>>,
                            inverses |-> [a \in 1..(p - 1) |-> calculate_inverse(a, p)],
                            ops |-> 0, last |-> <<"none", FALSE, FALSE>>]
           /\ bgObj = bg_new(FieldBgPattern, Len(FieldBgPattern), p, r)
    /\ bgRet = 0
    /\ IdleKmp /\ IdleTree /\ IdleMeasure /\ IdleAc /\ IdleMpbg /\ IdleFp /\ IdleReset /\ IdleExtra

FieldMul ==
    /\ fieldCells.ops < MaxFieldOps
    /\ \E dst \in FieldAddrs, val1 \in FieldAddrs, val2 \in FieldAddrs :
           fieldCells' = [fieldCells EXCEPT
                             !.mem = field_mul_at(@, dst, val1, val2, fieldCells.p),
                             !.ops = @ + 1,
                             !.last = <<"field_mul", dst = val1, dst = val2>>]
    /\ UNCHANGED <<kmpVars, bgVars, treeVars, measureVars, acVars, mpbgVars, fpVars, resetVars, extraVars>>

FieldDiv ==
    /\ fieldCells.ops < MaxFieldOps
    /\ \E dst \in FieldAddrs, numerator \in FieldAddrs, denomerator \in FieldAddrs :
           fieldCells' = [fieldCells EXCEPT
                             !.mem = field_div_at(@, dst, numerator, denomerator, fieldCells.p),
                             !.ops = @ + 1,
                             !.last = <<"field_div", dst = numerator, dst = denomerator>>]
    /\ UNCHANGED <<kmpVars, bgVars, treeVars, measureVars, acVars, mpbgVars, fpVars, resetVars, extraVars>>

\* calc_fp(seq, len, &mem[rn], &r, p)
FieldCalcFp ==
    /\ fieldCells.ops < MaxFieldOps
    /\ \E rn \in FieldAddrs, seq \in FieldSeqs :
           fieldCells' = [fieldCells EXCEPT
                             !.mem[rn] = calc_fp(seq, Len(seq), fieldCells.r, fieldCells.p)[2],
                             !.ops = @ + 1,
                             !.last = <<"calc_fp", FALSE, FALSE>>]
    /\ UNCHANGED <<kmpVars, bgVars, treeVars, measureVars, acVars, mpbgVars, fpVars, resetVars, extraVars>>

\* calc_fp_with_prefix(seq, len, 0, prefix_len, &mem[rn], &r, p)
FieldCalcFpWithPrefix ==
    /\ fieldCells.ops < MaxFieldOps
    /\ \E rn \in FieldAddrs, seq \in FieldSeqs, prefix_len \in 0..1 :
           fieldCells' = [fieldCells EXCEPT
                             !.mem[rn] = calc_fp_with_prefix(seq, Len(seq), 0, prefix_len, @,
                                                             fieldCells.r, fieldCells.p)[2],
                             !.ops = @ + 1,
                             !.last = <<"calc_fp_with_prefix", FALSE, FALSE>>]
    /\ UNCHANGED <<kmpVars, bgVars, treeVars, measureVars, acVars, mpbgVars, fpVars, resetVars, extraVars>>

FieldBgReadChar ==
    /\ Len(bgObj.stream) < MaxFieldBgText
    /\ \E c \in Alphabet :
           LET read == bg_read_char(bgObj, c)
           IN  /\ bgObj' = read[1]
               /\ bgRet' = read[2]
    /\ UNCHANGED <<kmpVars, treeVars, measureVars, acVars, mpbgVars, fpVars, fieldVars, resetVars, extraVars>>

NextField == FieldMul \/ FieldDiv \/ FieldCalcFp \/ FieldCalcFpWithPrefix \/ FieldBgReadChar

SpecField == InitField /\ [][NextField]_vars

-----------------------------------------------------------------------------
(* Reset: an engine reads a stream and is reset, then it and an engine     *)
(* built afresh from the same patterns, p and r read the same stream       *)

\* the patterns given to bg_new: short ones, and period 1 broken at the last
\* byte
ResetBgPatterns == {<<97, 98>>, <<97, 97>>, <<97, 98, 97>>, Rep(97, 8) \o <<98>>}

\* the add_pattern calls made on a multi-pattern matcher
ResetDictionaries ==
    { <<[pat |-> <<97, 98>>, len |-> 2, id |-> 1], [pat |-> <<98>>, len |-> 1, id |-> 2]>>,
      <<[pat |-> <<97, 97>>, len |-> 2, id |-> 1], [pat |-> Rep(97, 9), len |-> 9, id |-> 2]>>,
      <<[pat |-> <<97, 98, 97>>, len |-> 3, id |-> 1]>> }

\* the engines, compiled
ResetEngines(kind) ==
    IF kind = "bg"
    THEN {bg_new(pattern, Len(pattern), BgPrime, r) : pattern \in ResetBgPatterns, r \in BgRs}
    ELSE IF kind = "mpbg"
    THEN {mpbg_compile(AddPatternsToMpbg(mpbg_create, calls, 1, r)) :
              calls \in ResetDictionaries, r \in BgRs}
    ELSE {ac_reset(ac_compile(AddPatternsToAc(ac_create, calls, 1))) :
              calls \in ResetDictionaries}

\* the read_char and the reset of the engine; read_char returns
\* <<engine, result>>
ResetReadChar(kind, engine, c) ==
    IF kind = "bg" THEN bg_read_char(engine, c)
    ELSE IF kind = "mpbg" THEN mpbg_read_char(engine, c)
    ELSE ac_read_char(engine, c)

ResetEngine(kind, engine) ==
    IF kind = "bg" THEN bg_reset(engine)
    ELSE IF kind = "mpbg" THEN mpbg_reset(engine)
    ELSE ac_reset(engine)

\* used is the engine that is reset, fresh the one built afresh; before and
\* after are the streams read before and after the reset, and ret_used and
\* ret_fresh the results of the last read_char after the reset
InitReset ==
    /\ \E kind \in {"bg", "mpbg", "ac"} : \E engine \in ResetEngines(kind) :
           rsState = [kind |-> kind, used |-> engine, fresh |-> engine,
                      was_reset |-> FALSE, before |-> <<>>, after |-> <<>>,
                      ret_used |-> 0, ret_fresh |-> 0]
    /\ IdleKmp /\ IdleBg /\ IdleTree /\ IdleMeasure /\ IdleAc /\ IdleMpbg
    /\ IdleFp /\ IdleField /\ IdleExtra

\* read_char before the reset; a read_char that does not return ends the run
ResetReadBefore ==
    /\ ~rsState.was_reset
    /\ rsState.ret_used # DoesNotReturn
    /\ Len(rsState.before) < MaxResetBefore
    /\ \E c \in Alphabet :
           LET read == ResetReadChar(rsState.kind, rsState.used, c)
           IN  rsState' = [rsState EXCEPT !.used = read[1], !.ret_used = read[2],
                                          !.before = Append(@, c)]
    /\ UNCHANGED <<kmpVars, bgVars, treeVars, measureVars, acVars, mpbgVars, fpVars, fieldVars, extraVars>>

ResetCall ==
    /\ ~rsState.was_reset
    /\ rsState.ret_used # DoesNotReturn
    /\ rsState' = [rsState EXCEPT !.used = ResetEngine(rsState.kind, @),
                                   !.was_reset = TRUE, !.ret_used = 0]
    /\ UNCHANGED <<kmpVars, bgVars, treeVars, measureVars, acVars, mpbgVars, fpVars, fieldVars, extraVars>>

\* read_char of the same byte on both engines after the reset
ResetReadAfter ==
    /\ rsState.was_reset
    /\ rsState.ret_used # DoesNotReturn /\ rsState.ret_fresh # DoesNotReturn
    /\ Len(rsState.after) < MaxResetAfter
    /\ \E c \in Alphabet :
           LET read_used == ResetReadChar(rsState.kind, rsState.used, c)
               read_fresh == ResetReadChar(rsState.kind, rsState.fresh, c)
           IN  rsState' = [rsState EXCEPT !.used = read_used[1], !.ret_used = read_used[2],
                                          !.fresh = read_fresh[1], !.ret_fresh = read_fresh[2],
                                          !.after = Append(@, c)]
    /\ UNCHANGED <<kmpVars, bgVars, treeVars, measureVars, acVars, mpbgVars, fpVars, fieldVars, extraVars>>

NextReset == ResetReadBefore \/ ResetCall \/ ResetReadAfter

SpecReset == InitReset /\ [][NextReset]_vars

-----------------------------------------------------------------------------
(* The calls of a multi-pattern matcher in any order.  The MPBGStruct and *)
(* the AC hold a union of two pointers: holds names the member that was    *)
(* stored last (patsList or root before compilation, pats or states after  *)
(* it), and every function reads the union through the member its code     *)
(* names, whatever the union holds.                                        *)

MaxContractCalls == 4

\* the patterns and the ids given to add_pattern
ContractPatterns == {<<97>>, <<98>>, <<97, 98>>}

ContractIds == {1, 2}

\* how a call ends: it returns, the system ends the program (a signal), or
\* the call loops for ever; no call of a matcher ends the program itself
Returned == "returned"

Signal == "signal"

Hangs == "hangs"

\* what a call with undefined behaviour may do: end in a signal, or return
\* any id
UndefinedResults ==
    {[outcome |-> Signal, ret |-> null_pattern_id]}
    \cup {[outcome |-> Returned, ret |-> id] : id \in ContractIds \cup {null_pattern_id}}

\* mpbg_add_pattern: the new list node takes the value of u.patsList as its
\* next.  When the union holds pats, next is the address of the array, the
\* list the struct has is the new node alone, and n_pats counts the entries
\* of the array too.  Returns <<struct, holds, next_of_last>>, next_of_last
\* being what the next of the last node of the list points to.
mpbg_add_pattern_union(ct, pat, len, id, p, r) ==
    IF ct.holds = "patsList"
    THEN <<mpbg_add_pattern(ct.obj, pat, len, id, p, r), "patsList", ct.next_of_last>>
    ELSE <<[ct.obj EXCEPT !.pats = <<[obj |-> bg_new(pat, len, p, r), id |-> id]>>,
                          !.n_pats = @ + 1],
           "patsList", "pats">>

\* mpbg_read_char: iter starts at u.pats and makes n_pats steps.  When the
\* union holds patsList, the entry iter points to is a list node: its obj
\* is the next of the node (NULL, a list node or the array), which
\* bg_read_char takes for a BGStruct.  Returns <<struct, result>>.
mpbg_read_char_union(ct, c) ==
    IF ct.holds = "pats"
    THEN {[obj |-> mpbg_read_char(ct.obj, c)[1], outcome |-> Returned,
           ret |-> mpbg_read_char(ct.obj, c)[2]]}
    ELSE IF ct.obj.n_pats = 0
    THEN {[obj |-> ct.obj, outcome |-> Returned, ret |-> null_pattern_id]}
    ELSE {[obj |-> ct.obj, outcome |-> u.outcome, ret |-> u.ret] : u \in UndefinedResults}

\* ac_add_pattern: cur starts at ac->root.  When the union holds states,
\* cur is states[0] taken for a TreeNode and cur->children[pat[0]] is the
\* index states[0].children[pat[0]] taken for an address: when it is not 0
\* the while loop follows it; when it is 0 the for loop stores the address
\* of a new TreeNode in it and counts len new states.  pointers are the
\* bytes whose entry in states[0].children holds such an address.
\* Returns the set of [obj, pointers, outcome].
ac_add_pattern_union(ct, pat, len, id) ==
    IF ct.holds = "root"
    THEN {[obj |-> ac_add_pattern(ct.obj, pat, len, id), pointers |-> ct.pointers,
           outcome |-> Returned]}
    ELSE IF ct.obj.states[0].children[At(pat, 0)] # 0 \/ At(pat, 0) \in ct.pointers
    THEN {[obj |-> ct.obj, pointers |-> ct.pointers, outcome |-> u.outcome] :
              u \in UndefinedResults}
    ELSE {[obj |-> [ct.obj EXCEPT !.n_states = @ + len],
           pointers |-> ct.pointers \cup {At(pat, 0)}, outcome |-> Returned]}

\* ac_read_char: states is ac->states.  When the union holds root, states[0]
\* is the root TreeNode, whose memory ends before the id of a State.  When
\* the loop stops in state 0 and the entry for c holds the address of a
\* TreeNode, the address is taken for the index of the next state.
ac_read_char_union(ct, c) ==
    IF ct.holds = "root"
    THEN {[obj |-> ct.obj, outcome |-> u.outcome, ret |-> u.ret] : u \in UndefinedResults}
    ELSE IF ac_read_char(ct.obj, c)[2] = DoesNotReturn
    THEN {[obj |-> ct.obj, outcome |-> Hangs, ret |-> null_pattern_id]}
    ELSE IF c \in ct.pointers
            /\ ac_read_char_loop(ct.obj.states, ct.obj.current_state, c, {}) = 0
    THEN {[obj |-> ct.obj, outcome |-> u.outcome, ret |-> u.ret] : u \in UndefinedResults}
    ELSE {[obj |-> ac_read_char(ct.obj, c)[1], outcome |-> Returned,
           ret |-> ac_read_char(ct.obj, c)[2]]}

\* compiled says whether compile was called; last is the last call and
\* outcome how it ended
InitContract ==
    /\ \E kind \in {"mpbg", "ac"} : \E r \in BgRs :
           ctState = [kind |-> kind, r |-> r,
                      obj |-> IF kind = "mpbg" THEN mpbg_create ELSE ac_create,
                      holds |-> IF kind = "mpbg" THEN "patsList" ELSE "root",
                      next_of_last |-> "NULL", pointers |-> {},
                      compiled |-> FALSE, last |-> "create", outcome |-> Returned,
                      ret |-> null_pattern_id, calls |-> 0]
    /\ IdleKmp /\ IdleBg /\ IdleTree /\ IdleMeasure /\ IdleAc /\ IdleMpbg
    /\ IdleFp /\ IdleField /\ IdleReset /\ IdleParser /\ IdleNew /\ IdleMore

\* a call is made when the last one has returned
ContractAddPattern ==
    /\ ctState.outcome = Returned
    /\ ctState.calls < MaxContractCalls
    /\ \E pat \in ContractPatterns : \E id \in ContractIds :
           IF ctState.kind = "mpbg"
           THEN LET added == mpbg_add_pattern_union(ctState, pat, Len(pat), id,
                                                    MpbgPrime, ctState.r)
                IN  ctState' = [ctState EXCEPT !.obj = added[1], !.holds = added[2],
                                               !.next_of_last = added[3],
                                               !.last = "add_pattern",
                                               !.outcome = Returned,
                                               !.ret = null_pattern_id,
                                               !.calls = @ + 1]
           ELSE \E added \in ac_add_pattern_union(ctState, pat, Len(pat), id) :
                    ctState' = [ctState EXCEPT !.obj = added.obj,
                                               !.pointers = added.pointers,
                                               !.last = "add_pattern",
                                               !.outcome = added.outcome,
                                               !.ret = null_pattern_id,
                                               !.calls = @ + 1]
    /\ UNCHANGED <<kmpVars, bgVars, treeVars, measureVars, acVars, mpbgVars,
                   fpVars, fieldVars, resetVars, parserVars, newVars, moreVars>>

\* compile is called once
ContractCompile ==
    /\ ctState.outcome = Returned
    /\ ~ctState.compiled
    /\ ctState.calls < MaxContractCalls
    /\ ctState' = [ctState EXCEPT
                       !.obj = IF ctState.kind = "mpbg" THEN mpbg_compile(@)
                               ELSE ac_compile(@),
                       !.holds = IF ctState.kind = "mpbg" THEN "pats" ELSE "states",
                       !.compiled = TRUE, !.last = "compile", !.outcome = Returned,
                       !.ret = null_pattern_id, !.calls = @ + 1]
    /\ UNCHANGED <<kmpVars, bgVars, treeVars, measureVars, acVars, mpbgVars,
                   fpVars, fieldVars, resetVars, parserVars, newVars, moreVars>>

ContractReadChar ==
    /\ ctState.outcome = Returned
    /\ ctState.calls < MaxContractCalls
    /\ \E c \in Alphabet :
       \E read \in (IF ctState.kind = "mpbg" THEN mpbg_read_char_union(ctState, c)
                     ELSE ac_read_char_union(ctState, c)) :
           ctState' = [ctState EXCEPT !.obj = read.obj, !.last = "read_char",
                                      !.outcome = read.outcome, !.ret = read.ret,
                                      !.calls = @ + 1]
    /\ UNCHANGED <<kmpVars, bgVars, treeVars, measureVars, acVars, mpbgVars,
                   fpVars, fieldVars, resetVars, parserVars, newVars, moreVars>>

NextContract == ContractAddPattern \/ ContractCompile \/ ContractReadChar

SpecContract == InitContract /\ [][NextContract]_vars

-----------------------------------------------------------------------------
(* Aho-Corasick on bytes of every value.  pat[i] and c are C chars, signed *)
(* or unsigned as the build has them, and index the child tables as they   *)
(* are.  abState.used holds every (byte, index) pair with which a child    *)
(* table was indexed                                                       *)

\* most calls made on one object
MaxAcByteCalls == 4

AcBytes == Alphabet \cup AcWideBytes

AcBytePatterns == {<<b>> : b \in AcBytes} \cup {<<97, 128>>, <<0, 255>>, <<128, 97>>}

\* the (byte, index) pairs of the first k bytes of pat
ChildIndexes(pat, k, char_signed) ==
    {[byte |-> pat[i], index |-> CharOf(pat[i], char_signed)] : i \in 1..k}

\* ac_add_pattern on chars: children[pat[i]] is indexed with the char as it
\* is.  An index outside children[256] is undefined behaviour.  Returns the
\* set of [obj, used, outcome, ret]
ac_add_pattern_char(ac, pat, len, id, char_signed) ==
    LET idx == CharsOf(pat, char_signed)
        bad == {i \in 1..len : idx[i] \notin 0..255}
    IN  IF bad = {}
        THEN {[obj |-> ac_add_pattern(ac, idx, len, id),
               used |-> ChildIndexes(pat, len, char_signed),
               outcome |-> Returned, ret |-> null_pattern_id]}
        ELSE {[obj |-> ac,
               used |-> ChildIndexes(pat, CHOOSE k \in bad : \A j \in bad : k <= j,
                                     char_signed),
               outcome |-> u.outcome, ret |-> u.ret] : u \in UndefinedResults}

\* ac_read_char on a char: states[current_state].children[c] is indexed with
\* the char as it is.  Returns the set of [obj, used, outcome, ret]
ac_read_char_char(ac, c, char_signed) ==
    IF CharOf(c, char_signed) \notin 0..255
    THEN {[obj |-> ac, used |-> ChildIndexes(<<c>>, 1, char_signed),
           outcome |-> u.outcome, ret |-> u.ret] : u \in UndefinedResults}
    ELSE IF ac_read_char(ac, CharOf(c, char_signed))[2] = DoesNotReturn
    THEN {[obj |-> ac, used |-> ChildIndexes(<<c>>, 1, char_signed),
           outcome |-> Hangs, ret |-> null_pattern_id]}
    ELSE {[obj |-> ac_read_char(ac, CharOf(c, char_signed))[1],
           used |-> ChildIndexes(<<c>>, 1, char_signed),
           outcome |-> Returned,
           ret |-> ac_read_char(ac, CharOf(c, char_signed))[2]]}

InitAcBytes ==
    /\ \E char_signed \in BOOLEAN :
           abState = [char_signed |-> char_signed, obj |-> ac_create, compiled |-> FALSE,
                      used |-> {}, last |-> "create", outcome |-> Returned,
                      ret |-> null_pattern_id, calls |-> 0]
    /\ IdleKmp /\ IdleBg /\ IdleTree /\ IdleMeasure /\ IdleAc /\ IdleMpbg
    /\ IdleFp /\ IdleField /\ IdleReset /\ IdleContract /\ IdleParser /\ IdleNew
    /\ IdleInverse /\ IdleHarness

\* a call is made when the last one has returned
AcBytesAddPattern ==
    /\ abState.outcome = Returned
    /\ ~abState.compiled
    /\ abState.calls < MaxAcByteCalls
    /\ \E pat \in AcBytePatterns : \E id \in ContractIds :
       \E added \in ac_add_pattern_char(abState.obj, pat, Len(pat), id,
                                        abState.char_signed) :
           abState' = [abState EXCEPT !.obj = added.obj,
                                      !.used = @ \cup added.used,
                                      !.last = "add_pattern",
                                      !.outcome = added.outcome,
                                      !.ret = added.ret,
                                      !.calls = @ + 1]
    /\ UNCHANGED <<kmpVars, bgVars, treeVars, measureVars, acVars, mpbgVars,
                   fpVars, fieldVars, resetVars, contractVars, parserVars, newVars,
                   inverseVars, harnessVars>>

AcBytesCompile ==
    /\ abState.outcome = Returned
    /\ ~abState.compiled
    /\ abState.calls < MaxAcByteCalls
    /\ abState' = [abState EXCEPT !.obj = ac_reset(ac_compile(abState.obj)),
                                  !.compiled = TRUE,
                                  !.last = "compile",
                                  !.ret = null_pattern_id,
                                  !.calls = @ + 1]
    /\ UNCHANGED <<kmpVars, bgVars, treeVars, measureVars, acVars, mpbgVars,
                   fpVars, fieldVars, resetVars, contractVars, parserVars, newVars,
                   inverseVars, harnessVars>>

AcBytesReadChar ==
    /\ abState.outcome = Returned
    /\ abState.compiled
    /\ abState.calls < MaxAcByteCalls
    /\ \E c \in AcBytes :
       \E read \in ac_read_char_char(abState.obj, c, abState.char_signed) :
           abState' = [abState EXCEPT !.obj = read.obj,
                                      !.used = @ \cup read.used,
                                      !.last = "read_char",
                                      !.outcome = read.outcome,
                                      !.ret = read.ret,
                                      !.calls = @ + 1]
    /\ UNCHANGED <<kmpVars, bgVars, treeVars, measureVars, acVars, mpbgVars,
                   fpVars, fieldVars, resetVars, contractVars, parserVars, newVars,
                   inverseVars, harnessVars>>

NextAcBytes == AcBytesAddPattern \/ AcBytesCompile \/ AcBytesReadChar

SpecAcBytes == InitAcBytes /\ [][NextAcBytes]_vars

-----------------------------------------------------------------------------
(* calculate_inverse, one iteration of its while loop a step.  ciState     *)
(* holds the arguments a and p, the locals r, t, rr and tt, and as history *)
(* the q and the product q * tt of the last iteration and the number of    *)
(* iterations made                                                         *)

\* the primes up to MaxInversePrime are tried with every a, InverseLargePrime
\* with the values of InverseLargeAs
MaxInversePrime == 47

InverseLargePrime == 32749

InverseLargeAs == {1, 2, 3, 181, 16374, 16375, 20000, 32747, 32748}

InversePrimes == {p \in 2..MaxInversePrime : \A d \in 2..(p - 1) : p % d # 0}

\* one iteration that always takes the second branch for tt
calculate_inverse_step_AlwaysAdd(c) ==
    LET q == c.r \div c.rr
    IN  [c EXCEPT !.rr = c.r - q * c.rr,
                  !.r = c.rr,
                  !.tt = c.t + c.p - ((q * c.tt) % c.p),
                  !.t = c.tt,
                  !.q = q,
                  !.qtt = q * c.tt,
                  !.iterations = @ + 1]
\* one iteration of the while loop
calculate_inverse_step(c) ==
    LET q == c.r \div c.rr
    IN  [c EXCEPT !.rr = c.r - q * c.rr,
                  !.r = c.rr,
                  !.tt = IF c.t > q * c.tt THEN c.t - q * c.tt
                         ELSE c.t + c.p - ((q * c.tt) % c.p),
                  !.t = c.tt,
                  !.q = q,
                  !.qtt = q * c.tt,
                  !.iterations = @ + 1]

InitInverse ==
    /\ \E p \in InversePrimes \cup {InverseLargePrime} :
       \E a \in (IF p = InverseLargePrime THEN InverseLargeAs ELSE 1..(p - 1)) :
           ciState = [a |-> a, p |-> p, r |-> p, t |-> 0, rr |-> a, tt |-> 1,
                      q |-> 0, qtt |-> 0, iterations |-> 0,
                      returned |-> FALSE, ret |-> 0]
    /\ IdleKmp /\ IdleBg /\ IdleTree /\ IdleMeasure /\ IdleAc /\ IdleMpbg
    /\ IdleFp /\ IdleField /\ IdleReset /\ IdleContract /\ IdleParser /\ IdleNew
    /\ IdleBytes /\ IdleHarness

InverseIterate ==
    /\ ~ciState.returned
    /\ ciState.rr # 0
    /\ ciState' = calculate_inverse_step(ciState)
    /\ UNCHANGED <<kmpVars, bgVars, treeVars, measureVars, acVars, mpbgVars,
                   fpVars, fieldVars, resetVars, contractVars, parserVars, newVars,
                   bytesVars, harnessVars>>

InverseReturn ==
    /\ ~ciState.returned
    /\ ciState.rr = 0
    /\ ciState' = [ciState EXCEPT !.returned = TRUE, !.ret = ciState.t]
    /\ UNCHANGED <<kmpVars, bgVars, treeVars, measureVars, acVars, mpbgVars,
                   fpVars, fieldVars, resetVars, contractVars, parserVars, newVars,
                   bytesVars, harnessVars>>

NextInverse == InverseIterate \/ InverseReturn

SpecInverse == InitInverse /\ [][NextInverse]_vars

-----------------------------------------------------------------------------
(* main: mps_table_setup, init_mps (init_mps_instances, patterns_tree_build *)
(* with add_pattern_to_all_instances as its callback, compile_all_instances)*)
(* and measure_instances_stats.  hsState.log lists the calls made through   *)
(* mps_table, in order: [fn, inst, arg, run, stream, pos], inst being the   *)
(* index of a tested instance or ReliableInst, run the tested instance that *)
(* is measured, and pos the position in the stream of the byte given.       *)
(* bytes[i] counts the bytes read returned while instance i - 1 was         *)
(* measured, and compared lists the pairs of array entries that            *)
(* measure_success_rate compared                                            *)

\* the size of a chunk, in place of 100 * 1024
STREAM_BUFFER_SIZE == 2

MPS_AC == 0

MPS_BG == 1

MPS_SIZE == 2

\* the index that stands for conf->reliable_mps_instance in the log
ReliableInst == MPS_SIZE

HarnessDictionaries ==
    { <<<<97>>>>, <<<<97, 98>>, <<98>>>>, <<<<98, 97>>, <<98, 98>>>>,
      <<<<97, 98>>, <<97, 98>>>>, <<<<98>>, <<97, 98, 98>>>>, <<<<97>>, <<97, 97, 97>>>>,
      <<Rep(97, 9)>>, <<<<97, 97>>, Rep(97, 9)>> }

\* the stream files of a run
HarnessStreamFiles ==
    { <<<<97>>>>, <<<<98, 97>>>>, <<<<98, 98, 97>>, <<97>>>>, <<<<>>, <<98, 98, 98, 97>>>>,
      <<<<97, 97>>>>, <<<<98, 97, 98>>, <<98>>>>, <<<<97, 98>>>>,
      <<<<97, 97, 97>>, <<97, 97>>>>, <<Rep(97, 9), <<97, 97>>>> }

Event(fn, inst, arg, run, stream, pos) ==
    [fn |-> fn, inst |-> inst, arg |-> arg, run |-> run, stream |-> stream, pos |-> pos]

\* the functions mps_ac_register and mps_bg_register put in mps_table
mps_create(algo) == IF algo = MPS_AC THEN ac_create ELSE mpbg_create

mps_add_pattern(algo, obj, pat, len, id, r) ==
    IF algo = MPS_AC THEN ac_add_pattern(obj, pat, len, id)
    ELSE mpbg_add_pattern(obj, pat, len, id, MpbgPrime, r)

mps_compile(algo, obj) == IF algo = MPS_AC THEN ac_compile(obj) ELSE mpbg_compile(obj)

mps_reset(algo, obj) == IF algo = MPS_AC THEN ac_reset(obj) ELSE mpbg_reset(obj)

\* returns <<obj, id>>, the id being DoesNotReturn when the call never returns
mps_read_char(algo, obj, c) ==
    IF algo = MPS_AC THEN ac_read_char(obj, c) ELSE mpbg_read_char(obj, c)

\* instance i of conf->mps_instances (i = 0 .. MPS_SIZE - 1) is entry i + 1
init_mps_instances(h) ==
    [h EXCEPT !.mps_instances = [i \in 1..MPS_SIZE |-> [algo |-> i - 1,
                                                        obj |-> mps_create(i - 1)]],
              !.n_mps_instances = MPS_SIZE,
              !.reliable_mps_instance = [algo |-> MPS_AC, obj |-> mps_create(MPS_AC)],
              !.log = @ \o [i \in 1..MPS_SIZE |-> Event("create", i - 1, 0, 0, 0, 0)]
                        \o <<Event("create", ReliableInst, 0, 0, 0, 0)>>]

add_pattern_to_all_instances(h, pat, len, id) ==
    [h EXCEPT !.mps_instances =
                  [i \in 1..h.n_mps_instances |->
                      [@[i] EXCEPT !.obj = mps_add_pattern(h.mps_instances[i].algo, @,
                                                           pat, len, id, h.r)]],
              !.reliable_mps_instance.obj =
                  mps_add_pattern(h.reliable_mps_instance.algo, @, pat, len, id, h.r),
              !.log = @ \o [i \in 1..h.n_mps_instances |->
                               Event("add_pattern", i - 1, id, 0, 0, 0)]
                        \o <<Event("add_pattern", ReliableInst, id, 0, 0, 0)>>]

\* compile_all_instances without the compile call of the reliable instance
compile_all_instances_TestedOnly(h) ==
    [h EXCEPT !.mps_instances =
                  [i \in 1..h.n_mps_instances |->
                      [@[i] EXCEPT !.obj = mps_compile(h.mps_instances[i].algo, @)]],
              !.log = @ \o [i \in 1..h.n_mps_instances |-> Event("compile", i - 1, 0, 0, 0, 0)]]

compile_all_instances(h) ==
    [h EXCEPT !.mps_instances =
                  [i \in 1..h.n_mps_instances |->
                      [@[i] EXCEPT !.obj = mps_compile(h.mps_instances[i].algo, @)]],
              !.reliable_mps_instance.obj = mps_compile(h.reliable_mps_instance.algo, @),
              !.log = @ \o [i \in 1..h.n_mps_instances |-> Event("compile", i - 1, 0, 0, 0, 0)]
                        \o <<Event("compile", ReliableInst, 0, 0, 0, 0)>>]

\* an entry of algo_results or real_results: the id read_char returned and,
\* as history, the byte it was returned for
Result(id, ev) == [id |-> id, run |-> ev.run, stream |-> ev.stream, pos |-> ev.pos]

\* an entry no result was written to yet; the code reads no such entry
Unwritten == Result(null_pattern_id, Event("none", 0, 0, 0 - 1, 0 - 1, 0 - 1))

Ids(results) == [j \in 1..Len(results) |-> results[j].id]

\* a for loop of measure_single_instance_stats over the chunk, from its j-th
\* byte on: results[j] = read_char(obj, stream_buffer[j]), read being the
\* outcome <<obj, id>> of the call.  Returns [obj, results, log, hangs]
RECURSIVE read_chunk(_, _, _, _, _, _, _, _)
read_chunk_byte(algo, read, stream_buffer, len_read, j, results, log, ev) ==
    IF read[2] = DoesNotReturn
    THEN [obj |-> read[1], results |-> results,
          log |-> Append(log, [ev EXCEPT !.arg = At(stream_buffer, j), !.pos = ev.pos + j]),
          hangs |-> TRUE]
    ELSE read_chunk(algo, read[1], stream_buffer, len_read, j + 1,
                    [results EXCEPT ![j + 1] = Result(read[2], [ev EXCEPT !.pos = ev.pos + j])],
                    Append(log, [ev EXCEPT !.arg = At(stream_buffer, j), !.pos = ev.pos + j]),
                    ev)

read_chunk(algo, obj, stream_buffer, len_read, j, results, log, ev) ==
    IF j >= len_read
    THEN [obj |-> obj, results |-> results, log |-> log, hangs |-> FALSE]
    ELSE read_chunk_byte(algo, mps_read_char(algo, obj, At(stream_buffer, j)),
                         stream_buffer, len_read, j, results, log, ev)

\* the call of measure_success_rate on the whole of the two arrays
measure_chunk_WholeArrays(h, nodes, algo_results, real_results, len_read) ==
    [h EXCEPT !.stats[h.run + 1] =
                  measure_success_rate(nodes, @, Ids(algo_results), Ids(real_results),
                                       STREAM_BUFFER_SIZE),
              !.bytes[h.run + 1] = @ + len_read,
              !.compared = @ \o [j \in 1..STREAM_BUFFER_SIZE |->
                                    [run |-> h.run, algo |-> algo_results[j],
                                     real |-> real_results[j]]]]

\* the call of measure_success_rate at the end of the do-while body; bytes
\* counts what read has returned, compared lists the pairs of entries compared
measure_chunk(h, nodes, algo_results, real_results, len_read) ==
    [h EXCEPT !.stats[h.run + 1] =
                  measure_success_rate(nodes, @, Ids(algo_results), Ids(real_results),
                                       len_read),
              !.bytes[h.run + 1] = @ + len_read,
              !.compared = @ \o [j \in 1..len_read |->
                                    [run |-> h.run, algo |-> algo_results[j],
                                     real |-> real_results[j]]]]

InitHarness ==
    /\ \E lines \in HarnessDictionaries : BuiltTree(lines)
    /\ \E files \in HarnessStreamFiles : \E r \in BgRs :
           hsState = [pc |-> "main", r |-> r, stream_files |-> files,
                      n_stream_files |-> Len(files),
                      mps_instances |-> <<>>, n_mps_instances |-> 0,
                      reliable_mps_instance |-> [algo |-> 0, obj |-> 0],
                      added |-> 0, run |-> 0, stream |-> 0, offset |-> 0,
                      algo_results |-> [j \in 1..STREAM_BUFFER_SIZE |-> Unwritten],
                      real_results |-> [j \in 1..STREAM_BUFFER_SIZE |-> Unwritten],
                      stats |-> [i \in 1..MPS_SIZE |-> SuccessRateZero],
                      bytes |-> [i \in 1..MPS_SIZE |-> 0],
                      log |-> <<>>, compared |-> <<>>]
    /\ IdleKmp /\ IdleBg /\ IdleMeasure /\ IdleAc /\ IdleMpbg
    /\ IdleFp /\ IdleField /\ IdleReset /\ IdleContract /\ IdleParser /\ IdleNew
    /\ IdleBytes /\ IdleInverse

HarnessUnchanged ==
    UNCHANGED <<kmpVars, bgVars, treeVars, measureVars, acVars, mpbgVars,
                fpVars, fieldVars, resetVars, contractVars, parserVars, newVars,
                bytesVars, inverseVars>>

\* main calls mps_table_setup first
MpsTableSetup ==
    /\ hsState.pc = "main"
    /\ hsState' = [hsState EXCEPT !.pc = "init_mps",
                                  !.log = Append(@, Event("mps_table_setup", 0, 0, 0, 0, 0))]
    /\ HarnessUnchanged

InitMpsInstances ==
    /\ hsState.pc = "init_mps"
    /\ hsState' = [init_mps_instances(hsState) EXCEPT !.pc = "patterns_tree_build"]
    /\ HarnessUnchanged

\* patterns_tree_build calls its callback for the next pattern
AddPatternToAllInstances ==
    /\ hsState.pc = "patterns_tree_build"
    /\ hsState.added < Len(ptState.calls)
    /\ LET call == ptState.calls[hsState.added + 1]
       IN  hsState' = [add_pattern_to_all_instances(hsState, call.pat, call.len, call.id)
                          EXCEPT !.added = @ + 1]
    /\ HarnessUnchanged

\* measure_instances_stats starts with instance 0; with no stream file
\* measure_single_instance_stats has nothing to read
CompileAllInstances ==
    /\ hsState.pc = "patterns_tree_build"
    /\ hsState.added = Len(ptState.calls)
    /\ hsState' = [compile_all_instances(hsState) EXCEPT !.pc = "stream", !.run = 0,
                                                         !.stream = 0]
    /\ HarnessUnchanged

\* the start of the body of the loop over the stream files: the two resets
MeasureResetStream ==
    /\ hsState.pc = "stream"
    /\ LET run == hsState.run
           inst == hsState.mps_instances[run + 1]
           rel == hsState.reliable_mps_instance
       IN  hsState' =
               [hsState EXCEPT
                   !.reliable_mps_instance.obj = mps_reset(rel.algo, rel.obj),
                   !.mps_instances[run + 1].obj = mps_reset(inst.algo, inst.obj),
                   !.offset = 0,
                   !.pc = "chunk",
                   !.log = @ \o <<Event("reset", ReliableInst, 0, run, hsState.stream, 0),
                                  Event("reset", run, 0, run, hsState.stream, 0)>>]
    /\ HarnessUnchanged

\* what read returns for the next chunk of the stream file
read_len(h) ==
    IF Len(h.stream_files[h.stream + 1]) - h.offset < STREAM_BUFFER_SIZE
    THEN Len(h.stream_files[h.stream + 1]) - h.offset
    ELSE STREAM_BUFFER_SIZE

\* the first for loop of the do-while body: the tested instance reads the chunk
read_chunk_tested(h, len_read) ==
    read_chunk(h.mps_instances[h.run + 1].algo, h.mps_instances[h.run + 1].obj,
               Sub(h.stream_files[h.stream + 1], h.offset, len_read), len_read, 0,
               h.algo_results, h.log,
               Event("read_char", h.run, 0, h.run, h.stream, h.offset))

\* the second for loop, which is reached when the first one has ended
read_chunk_reliable(h, len_read, algo) ==
    IF algo.hangs THEN [algo EXCEPT !.obj = h.reliable_mps_instance.obj,
                                    !.results = h.real_results]
    ELSE read_chunk(h.reliable_mps_instance.algo, h.reliable_mps_instance.obj,
                    Sub(h.stream_files[h.stream + 1], h.offset, len_read), len_read, 0,
                    h.real_results, algo.log,
                    Event("read_char", ReliableInst, 0, h.run, h.stream, h.offset))

\* the state of the two instances and of the two arrays after the for loops
chunk_read(h, algo, real) ==
    [h EXCEPT !.mps_instances[h.run + 1].obj = algo.obj,
              !.reliable_mps_instance.obj = real.obj,
              !.algo_results = algo.results,
              !.real_results = real.results,
              !.log = real.log]

\* 'while (len_read == STREAM_BUFFER_SIZE)', the for loop over the stream
\* files and the for loop of measure_instances_stats: what follows the chunk
next_chunk(h, len_read) ==
    IF len_read = STREAM_BUFFER_SIZE
    THEN [h EXCEPT !.offset = @ + len_read, !.pc = "chunk"]
    ELSE IF h.stream + 1 < h.n_stream_files
    THEN [h EXCEPT !.offset = @ + len_read, !.pc = "stream", !.stream = @ + 1]
    ELSE IF h.run + 1 < h.n_mps_instances
    THEN [h EXCEPT !.offset = @ + len_read, !.pc = "stream", !.stream = 0, !.run = @ + 1]
    ELSE [h EXCEPT !.offset = @ + len_read, !.pc = "done", !.stream = 0]

\* the body of the do-while loop after the two for loops
chunk_measured(h, nodes, len_read, algo, real) ==
    IF real.hangs
    THEN [chunk_read(h, algo, real) EXCEPT !.pc = "hangs"]
    ELSE next_chunk(measure_chunk(chunk_read(h, algo, real), nodes, algo.results,
                                  real.results, len_read),
                    len_read)

chunk_tested(h, nodes, len_read, algo) ==
    chunk_measured(h, nodes, len_read, algo, read_chunk_reliable(h, len_read, algo))

\* one iteration of the do-while loop: read gives the next len_read bytes,
\* the tested instance reads them, then the reliable one, then
\* measure_success_rate; after the last chunk of the last stream file the
\* next instance follows
MeasureChunk ==
    /\ hsState.pc = "chunk"
    /\ hsState' = chunk_tested(hsState, ptState.nodes, read_len(hsState),
                               read_chunk_tested(hsState, read_len(hsState)))
    /\ HarnessUnchanged

NextHarness ==
    \/ MpsTableSetup
    \/ InitMpsInstances
    \/ AddPatternToAllInstances
    \/ CompileAllInstances
    \/ MeasureResetStream
    \/ MeasureChunk

SpecHarness == InitHarness /\ [][NextHarness]_vars

-----------------------------------------------------------------------------
(* parser.c: parse_pattern_from_line on one line of a dictionary file, as *)
(* fpt_fill_with_dict_file calls it                                        *)

MaxLineLen == 4

\* '|', ' ', the hex digits '1', '4' and 'a', and 'g'
LineBytes == {124, 32, 49, 52, 97, 103}

\* the lines of the dictionary: all short ones, and "|41 42 43|" with and
\* without a space before the closing '|'
ExampleLines ==
    { <<124, 52, 49, 32, 52, 50, 32, 52, 51, 124>>,
      <<124, 52, 49, 32, 52, 50, 32, 52, 51, 32, 124>>,
      <<120, 124, 52, 49, 124, 121>> }

DictLines == {<<>>} \cup StringsUpTo(LineBytes, MaxLineLen) \cup ExampleLines

\* what the buffer of getline holds behind the n bytes of the line: the
\* '\n' and the terminating 0, or, when the file does not end in '\n', the
\* terminating 0 and then bytes that an earlier line or nothing has written
LineTails == {<<10, 0>>, <<0, 0>>, <<0, 32, 0>>, <<0, 52, 0>>, <<0, 32, 52, 0>>}

\* the later of two indices
Later(i, j) == IF i >= j THEN i ELSE j

get_binary_val(bin) ==
    IF bin >= 48 /\ bin <= 57 THEN bin - 48
    ELSE IF bin >= 97 /\ bin <= 102 THEN bin - 97 + 10
    ELSE IF bin >= 65 /\ bin <= 70 THEN bin - 65 + 10
    ELSE -1

\* the index skip_spaces leaves in index
RECURSIVE skip_spaces(_, _)
skip_spaces(arr, index) ==
    IF At(arr, index) = 32 THEN skip_spaces(arr, index + 1) ELSE index

\* the inner while loop of parse_pattern_from_line; read_to is the highest
\* index of line that was read.  parse_block_pair is the body of the loop,
\* at_first and at_second being the indices of the two digits.
\* Returns [pattern, pos, err, read_to].
RECURSIVE parse_block(_, _, _, _, _)
parse_block_pair(line, n, pattern, at_first, at_second, read_to) ==
    IF get_binary_val(At(line, at_first)) = -1 \/ get_binary_val(At(line, at_second)) = -1
    THEN [pattern |-> pattern, pos |-> at_second + 1, err |-> 1,
          read_to |-> Later(read_to, at_second)]
    ELSE parse_block(line, n,
                     Append(pattern, (get_binary_val(At(line, at_first)) * 16
                                      + get_binary_val(At(line, at_second))) % 256),
                     at_second + 1, Later(read_to, at_second))

parse_block(line, n, pattern, pos, read_to) ==
    IF pos < n /\ At(line, pos) # 124
    THEN parse_block_pair(line, n, pattern, skip_spaces(line, pos),
                          skip_spaces(line, skip_spaces(line, pos) + 1), read_to)
    ELSE [pattern |-> pattern, pos |-> pos, err |-> 0,
          read_to |-> IF pos < n THEN Later(read_to, pos) ELSE read_to]

\* the outer while loop; parse_after_block is what follows the inner loop
RECURSIVE parse_line(_, _, _, _, _)
parse_after_block(line, n, block) ==
    IF block.err = 1 \/ block.pos >= n
    THEN [pattern |-> block.pattern, err |-> 1, read_to |-> block.read_to]
    ELSE parse_line(line, n, block.pattern, block.pos + 1, block.read_to)

parse_line(line, n, pattern, pos, read_to) ==
    IF pos < n
    THEN IF At(line, pos) = 124
         THEN parse_after_block(line, n,
                                parse_block(line, n, pattern, pos + 1, Later(read_to, pos)))
         ELSE parse_line(line, n, Append(pattern, At(line, pos)), pos + 1,
                         Later(read_to, pos))
    ELSE [pattern |-> pattern, err |-> 0, read_to |-> read_to]

\* line is the buffer; returns [len, ret_set, ret, read_to], ret_set saying
\* whether *ret was assigned
parse_pattern_from_line_result(parsed) ==
    IF parsed.err = 1
    THEN [len |-> 0, ret_set |-> FALSE, ret |-> <<>>, read_to |-> parsed.read_to]
    ELSE [len |-> Len(parsed.pattern), ret_set |-> TRUE, ret |-> parsed.pattern,
          read_to |-> parsed.read_to]

parse_pattern_from_line(line, n) ==
    IF n = 0 THEN [len |-> 0, ret_set |-> FALSE, ret |-> <<>>, read_to |-> -1]
    ELSE parse_pattern_from_line_result(parse_line(line, n, <<>>, 0, -1))

\* the file holds one line; buffer is what getline has left in line, read
\* the number of bytes of the line without its '\n'
InitParser ==
    /\ \E line \in DictLines : \E tail \in LineTails :
           psState = [line |-> line, buffer |-> line \o tail, read |-> Len(line),
                      parsed |-> FALSE, pat_len |-> 0, pat |-> <<>>, read_to |-> -1,
                      added |-> <<>>]
    /\ IdleKmp /\ IdleBg /\ IdleTree /\ IdleMeasure /\ IdleAc /\ IdleMpbg
    /\ IdleFp /\ IdleField /\ IdleReset /\ IdleContract /\ IdleNew /\ IdleMore

\* the body of the while loop of fpt_fill_with_dict_file: added are the
\* patterns given to fpt_add_pattern
ParserFillLine ==
    /\ ~psState.parsed
    /\ LET parsed == parse_pattern_from_line(psState.buffer, psState.read)
       IN  psState' = [psState EXCEPT !.parsed = TRUE, !.pat_len = parsed.len,
                                      !.pat = parsed.ret, !.read_to = parsed.read_to,
                                      !.added = IF parsed.len # 0 THEN <<parsed.ret>>
                                                ELSE <<>>]
    /\ UNCHANGED <<kmpVars, bgVars, treeVars, measureVars, acVars, mpbgVars,
                   fpVars, fieldVars, resetVars, contractVars, newVars, moreVars>>

NextParser == ParserFillLine

SpecParser == InitParser /\ [][NextParser]_vars

-----------------------------------------------------------------------------

\* the id of the longest pattern add_pattern_func was given that occurs in
\* stream ending at its last byte, or null_pattern_id
LongestMatchId(stream) ==
    LET calls == ptState.calls
        ending == {k \in 1..Len(calls) :
                      OccursEndingAt(calls[k].pat, stream, Len(stream) - 1)}
    IN  IF ending = {} THEN null_pattern_id
        ELSE calls[CHOOSE k \in ending : \A j \in ending : calls[j].len <= calls[k].len].id

\* no engine of the matcher has met a fingerprint collision
MpbgCollisionFree ==
    \A k \in 1..mpbgObj.n_pats : ~mpbgObj.pats[k].obj.collision

\* C2: without fingerprint collisions, mpbg_read_char returns the id of the
\* longest pattern of the dictionary that ends at the byte just read, or
\* null_pattern_id when none does
C2_MpbgLongest ==
    (Len(mpbgStream) > 0 /\ MpbgCollisionFree) => mpbgRet = LongestMatchId(mpbgStream)

\* C4: ac_read_char returns the id of the longest pattern of the dictionary
\* that ends at the byte just read, or null_pattern_id when none does
C4_AcLongest ==
    Len(acStream) > 0 => acRet = LongestMatchId(acStream)

\* C1: without fingerprint collisions, bg_read_char returns 1 exactly on the
\* bytes at which an occurrence of the pattern (n >= 9) ends
C1_BgExact ==
    (bgObj.n >= 9 /\ Len(bgObj.stream) > 0 /\ ~bgObj.collision) =>
        (bgRet = 1 <=> OccursEndingAt(bgObj.pattern, bgObj.stream, Len(bgObj.stream) - 1))

\* C3: kmp_read_char returns 1 exactly when an occurrence of the pattern ends
\* at the byte just read
C3_KmpExact ==
    Len(kmpText) > 0 =>
        (kmpRet = 1 <=> OccursEndingAt(kmpPattern, kmpText, Len(kmpText) - 1))

\* the second match of the test of kmprt.c, at position 42, after the engine
\* has worked through its buffer
C3_Witness ==
    /\ kmpPattern = KmpTestPattern
    /\ Len(kmpText) = 43
    /\ kmpRet = 1

\* a is a suffix of b, b itself included
IsSuffixStr(a, b) ==
    /\ Len(a) <= Len(b)
    /\ Sub(b, Len(b) - Len(a), Len(a)) = a

IsProperSuffixStr(a, b) == Len(a) < Len(b) /\ IsSuffixStr(a, b)

\* the distinct patterns of the dictionary
DictSet == {dictLines[i] : i \in 1..Len(dictLines)}

\* the pattern of the dictionary line a PatternInternalID names; the root's is empty
PatternOfLine(id) ==
    IF id = null_pattern_internal_id THEN <<>> ELSE dictLines[id.line_number]

\* the pattern of a pattern id
PatternOfId(id) == PatternOfLine(ptState.nodes[id].pattern_id)

\* the longest pattern of S, or the empty pattern, that is a proper suffix of y
LongestProperSuffixIn(y, S) ==
    CHOOSE x \in S \cup {<<>>} :
        /\ IsProperSuffixStr(x, y)
        /\ \A z \in S \cup {<<>>} : IsProperSuffixStr(z, y) => Len(z) <= Len(x)

\* the pairs <<pattern, pattern of its parent>> of the reverse-suffix tree of S
SuffixTreeOf(S) == {<<y, LongestProperSuffixIn(y, S)>> : y \in S}

\* the pairs <<pattern of the child, pattern of the owner>> of the edges of
\* the full patterns tree
FptEdgePairs ==
    LET nodes == fptFill.tree.nodes
    IN  UNION { { <<PatternOfLine(nodes[nodes[x].edge_list[j].node].pattern_id),
                    PatternOfLine(nodes[x].pattern_id)>> :
                  j \in 1..Len(nodes[x].edge_list) } : x \in 1..Len(nodes) }

\* the pairs <<pattern of a node, pattern of its parent>> of the patterns tree
PtParentPairs ==
    { <<PatternOfId(y), PatternOfId(ptState.nodes[y].parent)>> :
        y \in {z \in 1..Len(ptState.nodes) : ptState.nodes[z].parent # 0} }

\* C5: is_pattern_suffix(a, b) is 1 exactly when the pattern of a is a proper
\* suffix of the pattern of b; it is 0 for a = b and for a = no-pattern
C5_ProperSuffix ==
    (sufQuery.asked /\ sufQuery.second # null_pattern_id) =>
        (sufQuery.ret = 1 <=>
            /\ sufQuery.first # null_pattern_id
            /\ IsProperSuffixStr(PatternOfId(sufQuery.first), PatternOfId(sufQuery.second)))

\* C5 as amended: is_pattern_suffix(a, b) is 1 exactly when a is a pattern id
\* and the pattern of a is a suffix of the pattern of b, b's own pattern
\* included; so it is 1 for a = b, and 0 for a = no-pattern
C5_Suffix ==
    (sufQuery.asked /\ sufQuery.second # null_pattern_id) =>
        (sufQuery.ret = 1 <=>
            /\ sufQuery.first # null_pattern_id
            /\ IsSuffixStr(PatternOfId(sufQuery.first), PatternOfId(sufQuery.second)))

\* is_pattern_suffix was asked about a pattern and itself
C5_Witness ==
    /\ sufQuery.asked
    /\ sufQuery.first # null_pattern_id
    /\ sufQuery.first = sufQuery.second
    /\ sufQuery.ret = 1

\* C6: after any insertions, in any order, the full patterns tree has one
\* node per distinct pattern and the parent of each is the longest pattern of
\* the dictionary (or the root) that is a proper suffix of it; the tree made
\* from it by patterns_tree_build has the same parents
C6_LongestSuffixParent ==
    /\ ~ptState.built =>
           /\ Len(fptFill.tree.nodes) = 1 + Cardinality(DictSet)
           /\ FptEdgePairs = SuffixTreeOf(DictSet)
    /\ ptState.built =>
           /\ Len(ptState.nodes) = 1 + Cardinality(DictSet)
           /\ \A y \in 1..Len(ptState.nodes) : ptState.nodes[y].parent = 0 <=> y = ptState.root
           /\ PtParentPairs = SuffixTreeOf(DictSet)

\* the last line read became the parent of two patterns read before it
C6_Witness ==
    /\ ~ptState.built
    /\ Len(dictLines) = MaxDictLines
    /\ LET nodes == fptFill.tree.nodes
       IN  \E x \in 1..Len(nodes) :
               /\ nodes[x].pattern_id = PatternInternalID(0, Len(dictLines))
               /\ Len(nodes[x].edge_list) >= 2

\* C7: when patterns_tree_build ends, add_pattern_func has been called once
\* for each distinct pattern, with the bytes and the length of the pattern and
\* with the node of the pattern, and never with the root
C7_OneCallPerPattern ==
    ptState.built =>
        LET calls == ptState.calls
        IN  /\ Len(calls) = Cardinality(DictSet)
            /\ {calls[i].pat : i \in 1..Len(calls)} = DictSet
            /\ \A i \in 1..Len(calls) :
                   /\ calls[i].len = Len(calls[i].pat)
                   /\ calls[i].id # ptState.root
                   /\ PatternOfId(calls[i].id) = calls[i].pat
                   /\ ptState.nodes[calls[i].id].pattern_id.line_number =
                          CHOOSE l \in 1..Len(dictLines) :
                              /\ dictLines[l] = calls[i].pat
                              /\ \A k \in 1..(l - 1) : dictLines[k] # calls[i].pat
            /\ \A i, j \in 1..Len(calls) : calls[i].id = calls[j].id => i = j

\* a dictionary with a repeated line, whose tree has a node below a node
C7_Witness ==
    /\ ptState.built
    /\ Len(dictLines) > Len(ptState.calls)
    /\ \E y \in 1..Len(ptState.nodes) :
           /\ ptState.nodes[y].parent # 0
           /\ ptState.nodes[y].parent # ptState.root

\* the class the specification gives to a pair of results
SuccessClass(algo, real) ==
    IF algo = real THEN "success"
    ELSE IF /\ algo # null_pattern_id
            /\ real # null_pattern_id
            /\ IsProperSuffixStr(PatternOfId(algo), PatternOfId(real))
         THEN "partial_suc"
    ELSE IF algo = null_pattern_id THEN "false_neg"
    ELSE "false_pos"

CountClass(class) ==
    Cardinality({i \in 1..Len(algoResults) :
                    SuccessClass(algoResults[i], realResults[i]) = class})

\* C8: measure_success_rate counts each pair (algo, real) in the class the
\* specification defines: success for equal ids, else partial success when
\* algo is a proper suffix of real, else false negative when algo is
\* no-pattern, else false positive
C8_Classification ==
    /\ sucRate.success = CountClass("success")
    /\ sucRate.partial_suc = CountClass("partial_suc")
    /\ sucRate.false_neg = CountClass("false_neg")
    /\ sucRate.false_pos = CountClass("false_pos")

\* three results of three classes, one of them a partial success
C8_Witness ==
    /\ sucRate.partial_suc = 1
    /\ sucRate.false_pos = 1
    /\ sucRate.false_neg = 1

\* C9: no kmp_read_char call applies _kmp_move_failure_function more than twice
C9_TwoSteps == kmpSteps <= 2

\* C10: the ring buffer holds at most n bytes, and no byte of it is
\* overwritten before it is popped
C10_NoOverwrite ==
    /\ kmp_buffer_len(kmp) <= kmp.n
    /\ ~kmp.overwrote

\* the buffer holds several bytes while the engine still owes failure steps
C10_Witness ==
    /\ kmp.LOOP_FAIL
    /\ kmp_buffer_len(kmp) >= 3

\* the sum of bytes[i] * r^i mod p over the unsigned byte values
RECURSIVE FpSum(_, _, _)
FpSum(bytes, r, p) ==
    IF bytes = <<>> THEN 0
    ELSE (Head(bytes) + r * FpSum(Tail(bytes), r, p)) % p

\* C11: the fingerprint of a concatenation a.b equals
\* calc_fp_from_prefix_suffix of the fingerprints of a and of b with r^|a|,
\* and is the sum of (a.b)[i] * r^i mod p over the unsigned byte values, for
\* all bytes including 0x00 and 0x80..0xFF
C11_FpConcat ==
    fpOut.calls = 2 =>
        /\ fpOut.whole = fpOut.joined
        /\ fpOut.whole = FpSum(fpIn.a \o fpIn.b, fpIn.r.val, fpIn.p)

\* what holds of the code: C11_FpConcat where char is unsigned or no byte is
\* above 0x7F
C11_FpConcatAscii ==
    /\ fpOut.calls = 2
    /\ ~fpIn.char_signed \/ \A i \in 1..Len(fpIn.a \o fpIn.b) : (fpIn.a \o fpIn.b)[i] < 128
    => /\ fpOut.whole = fpOut.joined
       /\ fpOut.whole = FpSum(fpIn.a \o fpIn.b, fpIn.r.val, fpIn.p)

ValidFieldVal(v, p) == v.val < p /\ (v.val * v.inv) % p = 1

\* C12: every FieldVal produced by calculate_inverse, field_mul and field_div
\* (with any aliasing of their arguments), every rn of calc_fp and
\* calc_fp_with_prefix, and the r, current_r and first_stage_r of the engine
\* and the first.r and step.r of its stored viable occurrences have
\* val < p and val * inv mod p = 1
C12_FieldValid ==
    /\ \A a \in DOMAIN fieldCells.inverses :
           ValidFieldVal(FieldVal(a, fieldCells.inverses[a]), fieldCells.p)
    /\ \A a \in FieldAddrs : ValidFieldVal(fieldCells.mem[a], fieldCells.p)
    /\ ValidFieldVal(bgObj.r, bgObj.p)
    /\ ValidFieldVal(bgObj.current_r, bgObj.p)
    /\ ValidFieldVal(bgObj.first_stage_r, bgObj.p)
    /\ \A i \in DOMAIN bgObj.vos :
           /\ bgObj.vos[i].n >= 1 => ValidFieldVal(bgObj.vos[i].first.r, bgObj.p)
           /\ bgObj.vos[i].n >= 2 => ValidFieldVal(bgObj.vos[i].step.r, bgObj.p)

\* a field_div whose dst is its denomerator and not its numerator has been
\* made, with a result other than 1, and the engine stores a progression of
\* viable occurrences with a step
C12_Witness ==
    /\ fieldCells.last = <<"field_div", FALSE, TRUE>>
    /\ \A a \in FieldAddrs : fieldCells.mem[a].val # 1
    /\ \E i \in DOMAIN bgObj.vos : bgObj.vos[i].n >= 2

C14_ViolationIsFatal ==
    ( \/ ctState.last = "add_pattern" /\ ctState.compiled
      \/ ctState.last = "read_char" /\ ~ctState.compiled )
    => ctState.outcome # Returned

\* the reading of a line that the format of the dictionary gives: bytes
\* outside '|' blocks are literal, and in a block spaces are skipped and two
\* hex digits give a byte.  Returns <<well_formed, bytes>>.
IsHexDigit(c) == (c >= 48 /\ c <= 57) \/ (c >= 65 /\ c <= 70) \/ (c >= 97 /\ c <= 102)

HexDigit(c) == IF c <= 57 THEN c - 48 ELSE IF c <= 70 THEN c - 55 ELSE c - 87

RECURSIVE LineFormat(_, _, _, _)
LineFormat(line, i, in_block, bytes) ==
    IF i > Len(line) THEN <<~in_block, bytes>>
    ELSE IF ~in_block
    THEN IF line[i] = 124 THEN LineFormat(line, i + 1, TRUE, bytes)
         ELSE LineFormat(line, i + 1, FALSE, Append(bytes, line[i]))
    ELSE IF line[i] = 124 THEN LineFormat(line, i + 1, FALSE, bytes)
    ELSE IF line[i] = 32 THEN LineFormat(line, i + 1, TRUE, bytes)
    ELSE IF IsHexDigit(line[i]) /\ i < Len(line) /\ IsHexDigit(line[i + 1])
    THEN LineFormat(line, i + 2, TRUE,
                    Append(bytes, HexDigit(line[i]) * 16 + HexDigit(line[i + 1])))
    ELSE <<FALSE, bytes>>

\* a space stands directly before a '|' that closes a block
RECURSIVE SpaceBeforeClosing(_, _, _)
SpaceBeforeClosing(line, i, in_block) ==
    IF i > Len(line) THEN FALSE
    ELSE IF line[i] = 124
    THEN (in_block /\ i > 1 /\ line[i - 1] = 32) \/ SpaceBeforeClosing(line, i + 1, ~in_block)
    ELSE SpaceBeforeClosing(line, i + 1, in_block)

\* C16: for a line whose blocks are closed and hold only hex pairs and
\* spaces, parse_pattern_from_line returns the literal bytes and the decoded
\* pairs in order, spaces before the closing '|' included
C16_HexDecoded ==
    (psState.parsed /\ LineFormat(psState.line, 1, FALSE, <<>>)[1])
    => /\ psState.pat_len = Len(LineFormat(psState.line, 1, FALSE, <<>>)[2])
       /\ psState.pat_len # 0 => psState.pat = LineFormat(psState.line, 1, FALSE, <<>>)[2]

\* the same for the lines in which no space stands before a closing '|'
C16_HexDecodedNoSpaceBeforeClosing ==
    ( /\ psState.parsed
      /\ LineFormat(psState.line, 1, FALSE, <<>>)[1]
      /\ ~SpaceBeforeClosing(psState.line, 1, FALSE) )
    => /\ psState.pat_len = Len(LineFormat(psState.line, 1, FALSE, <<>>)[2])
       /\ psState.pat_len # 0 => psState.pat = LineFormat(psState.line, 1, FALSE, <<>>)[2]

\* a line with a malformed escape sequence: a block holds a byte that is
\* neither a hex digit nor a space, or an odd number of hex digits, or it is
\* not closed before the end of the line
RECURSIVE MalformedEscape(_, _, _, _)
MalformedEscape(line, i, in_block, nibbles) ==
    IF i > Len(line) THEN in_block
    ELSE IF ~in_block
    THEN MalformedEscape(line, i + 1, line[i] = 124, 0)
    ELSE IF line[i] = 124
    THEN nibbles % 2 = 1 \/ MalformedEscape(line, i + 1, FALSE, 0)
    ELSE IF line[i] = 32 THEN MalformedEscape(line, i + 1, TRUE, nibbles)
    ELSE IF IsHexDigit(line[i]) THEN MalformedEscape(line, i + 1, TRUE, nibbles + 1)
    ELSE TRUE

\* C17: for a line with a malformed escape sequence
\* parse_pattern_from_line returns 0, no pattern is added to the tree, and
\* no byte behind the n bytes of the line is read
C17_MalformedDropped ==
    (psState.parsed /\ MalformedEscape(psState.line, 1, FALSE, 0))
    => /\ psState.pat_len = 0
       /\ psState.added = <<>>
       /\ psState.read_to < psState.read

\* the first two parts of it
C17_MalformedLengthZero ==
    (psState.parsed /\ MalformedEscape(psState.line, 1, FALSE, 0))
    => /\ psState.pat_len = 0
       /\ psState.added = <<>>

\* C15: on the stream of the test of bgps.c the engine of "ABCDABDABC"
\* returns 1 exactly on the bytes at the positions 12, 19 and 33
C15_TestStreamMatches ==
    (bgObj.pattern = BgTestPattern /\ Len(bgObj.stream) > 0)
    => (bgRet = 1 <=> (Len(bgObj.stream) - 1) \in {12, 19, 33})

\* on that stream the engine returns 0 on every byte, the bytes at the
\* positions 13, 20 and 34, where the occurrences end, included
C15_TestStreamSilent ==
    bgObj.pattern = BgTestPattern => bgRet = 0

\* the last len bytes of the stream are the first len bytes of the pattern
PrefixEnds(pattern, stream, len) ==
    Len(stream) >= len /\ Sub(stream, Len(stream) - len, len) = Sub(pattern, 0, len)

InProgression(vos, q) ==
    \/ vos.n >= 1 /\ vos.first.pos = q
    \/ vos.n >= 2 /\ \E k \in 1..(vos.n - 1) : vos.first.pos + k * vos.step.pos = q

\* C18: without fingerprint collisions, for a pattern with n >= 9 and a
\* stage above the first, the call for the byte that ends the first
\* 2^first_stage bytes of the pattern at position q puts a viable occurrence
\* with position q into stage 0, and bg_read_char returns 1 exactly in the
\* call for the last byte of an occurrence
C18_OccurrenceTravels ==
    (bgObj.n >= 9 /\ N_STAGES(bgObj) >= 1 /\ Len(bgObj.stream) > 0 /\ ~bgObj.collision)
    => /\ PrefixEnds(bgObj.pattern, bgObj.stream, stage_to_len(bgObj, 0))
          => InProgression(bgObj.vos[0], Len(bgObj.stream) - stage_to_len(bgObj, 0))
       /\ bgRet = 1 <=> OccursEndingAt(bgObj.pattern, bgObj.stream, Len(bgObj.stream) - 1)

\* the first part of it alone, which fails on the third viable occurrence
\* of a progression
C18_OccurrenceStored ==
    (bgObj.n >= 9 /\ N_STAGES(bgObj) >= 1 /\ Len(bgObj.stream) > 0 /\ ~bgObj.collision)
    => ( PrefixEnds(bgObj.pattern, bgObj.stream, stage_to_len(bgObj, 0))
         => InProgression(bgObj.vos[0], Len(bgObj.stream) - stage_to_len(bgObj, 0)) )

\* C19: for a pattern with n >= 9 that continues the period of its
\* 2^loglogn prefix to its end (no stage above the first), bg_read_char
\* returns 1 exactly on the bytes at which an occurrence of the pattern ends
C19_PeriodicExact ==
    (bgObj.n >= 9 /\ N_STAGES(bgObj) = 0 /\ Len(bgObj.stream) > 0)
    => (bgRet = 1 <=> OccursEndingAt(bgObj.pattern, bgObj.stream, Len(bgObj.stream) - 1))

\* for such a pattern current_pos stays 0, and so does
\* last_kmp_period_match_pos
C19_PositionStays ==
    (bgObj.n >= 9 /\ N_STAGES(bgObj) = 0)
    => /\ bgObj.current_pos = 0
       /\ bgObj.last_kmp_period_match_pos = 0
       /\ bgRet = 0

\* the fingerprint of the len stream bytes that start at position from,
\* put together from the fingerprints of blocks of at most 16 bytes
RECURSIVE StreamFp(_, _, _)
StreamFp(bg, from, len) ==
    IF len <= 16 THEN calc_fp(Sub(bg.stream, from, len), len, bg.r, bg.p)[1]
    ELSE calc_fp_from_prefix_suffix(
             StreamFp(bg, from, len \div 2),
             StreamFp(bg, from + len \div 2, len - len \div 2),
             FieldVal(PowMod(bg.r.val, len \div 2, bg.p), 0), bg.p)

\* C21: when _bgps_vo_stage_upgrade at stage i compares a fingerprint with
\* fps[i + 1], end_pos is the position of the last byte of the block of
\* stage_to_len(i + 1) bytes that starts at first.pos, the fingerprint read
\* from last_fps is the fingerprint of the stream through that byte, and the
\* compared fingerprint is the fingerprint of exactly that block
C21_UpgradeBlock ==
    bgObj.last_check.compared
    => /\ bgObj.last_check.end_pos
            = bgObj.last_check.first + stage_to_len(bgObj, bgObj.last_check.stage + 1) - 1
       /\ bgObj.last_check.read_fp
            = StreamFp(bgObj, 0, bgObj.last_check.first
                                   + stage_to_len(bgObj, bgObj.last_check.stage + 1))
       /\ bgObj.last_check.check_fp
            = StreamFp(bgObj, bgObj.last_check.first,
                       stage_to_len(bgObj, bgObj.last_check.stage + 1))

\* end_pos is the position after the block, and the fingerprint read from
\* last_fps covers the stream through the byte at end_pos
C21_UpgradeBlockOneMore ==
    bgObj.last_check.compared
    => /\ bgObj.last_check.end_pos
            = bgObj.last_check.first + stage_to_len(bgObj, bgObj.last_check.stage + 1)
       /\ bgObj.last_check.read_fp
            = StreamFp(bgObj, 0, bgObj.last_check.end_pos + 1)

\* C22: in every state of an engine with at least one stage above the
\* first, HAVE_LAST_STAGE is set exactly when the top stage holds a viable
\* occurrence, and HAVE_BEFORE_LAST_STAGE is set exactly when
\* NEED_BEFORE_LAST_STAGE is set and the stage below the top holds one
C22_StageFlags ==
    (bgObj.n >= 9 /\ N_STAGES(bgObj) >= 1)
    => /\ bgObj.HAVE_LAST_STAGE <=> bgObj.vos[N_STAGES(bgObj) - 1].n >= 1
       /\ bgObj.HAVE_BEFORE_LAST_STAGE
            <=> ( /\ bgObj.NEED_BEFORE_LAST_STAGE
                  /\ N_STAGES(bgObj) >= 2
                  /\ bgObj.vos[IF N_STAGES(bgObj) >= 2 THEN N_STAGES(bgObj) - 2 ELSE 0].n >= 1 )

\* neither flag is ever set
C22_FlagsNeverSet ==
    (bgObj.n >= 9 /\ N_STAGES(bgObj) >= 1)
    => ~bgObj.HAVE_LAST_STAGE /\ ~bgObj.HAVE_BEFORE_LAST_STAGE

\* _bgps_add_vo on stage accepts exactly the position
\* first.pos + k * step.pos among the positions up to last, and then
\* increments the count
AddVoAccepts(bg, stage, k, last) ==
    \A pos \in 0..last :
        /\ _bgps_add_vo(bg, stage, pos, 0, bg.r)[2] = 1
             <=> pos = bg.vos[stage].first.pos + k * bg.vos[stage].step.pos
        /\ _bgps_add_vo(bg, stage, pos, 0, bg.r)[2] = 1
             => _bgps_add_vo(bg, stage, pos, 0, bg.r)[1].vos[stage].n = bg.vos[stage].n + 1

\* C23: when a stage holds count >= 2 viable occurrences, _bgps_add_vo
\* accepts a new one exactly when its position is
\* first.pos + count * step.pos, the next term of the progression, and then
\* increments the count; every other position is rejected
C23_AddVoNextTerm ==
    (bgObj.n >= 9 /\ N_STAGES(bgObj) >= 1)
    => \A stage \in DOMAIN bgObj.vos :
           bgObj.vos[stage].n >= 2
           => AddVoAccepts(bgObj, stage, bgObj.vos[stage].n, Len(bgObj.stream) + 2)

\* the accepted position is first.pos + (count + 1) * step.pos, one term
\* further
C23_AddVoSkipsTerm ==
    (bgObj.n >= 9 /\ N_STAGES(bgObj) >= 1)
    => \A stage \in DOMAIN bgObj.vos :
           bgObj.vos[stage].n >= 2
           => AddVoAccepts(bgObj, stage, bgObj.vos[stage].n + 1, Len(bgObj.stream) + 2)

\* the cached fingerprints and powers of r of the progression in stage
ProgressionCached(bg, stage) ==
    /\ bg.vos[stage].n >= 1
         => /\ bg.vos[stage].first.fp = StreamFp(bg, 0, bg.vos[stage].first.pos)
            /\ bg.vos[stage].first.r.val = PowMod(bg.r.val, bg.vos[stage].first.pos, bg.p)
    /\ bg.vos[stage].n >= 2
         => /\ bg.vos[stage].step.fp
                 = StreamFp(bg, bg.vos[stage].first.pos, bg.vos[stage].step.pos)
            /\ bg.vos[stage].step.r.val = PowMod(bg.r.val, bg.vos[stage].step.pos, bg.p)

\* C24: without fingerprint collisions, in every state and for every stage
\* with count >= 1, first.fp is the fingerprint of stream[0 .. first.pos - 1]
\* and first.r is r^first.pos, and with count >= 2 step.fp is the fingerprint
\* of stream[first.pos .. first.pos + step.pos - 1] and step.r is r^step.pos
C24_ProgressionCached ==
    (bgObj.n >= 9 /\ N_STAGES(bgObj) >= 1 /\ ~bgObj.collision)
    => \A stage \in DOMAIN bgObj.vos : ProgressionCached(bgObj, stage)

\* C25: when _bgps_vo_stage_upgrade visits a stage whose first viable
\* occurrence has aged out of its window (current_pos >= end_pos + logn),
\* that viable occurrence is removed: it is no longer the first of the stage
C25_AgedOutRemoved ==
    (bgObj.n >= 9 /\ N_STAGES(bgObj) >= 1 /\ bgObj.last_check.stage >= 0
        /\ bgObj.last_check.at >= bgObj.last_check.end_pos + bgObj.logn)
    => ~( /\ bgObj.vos[bgObj.last_check.stage].n >= 1
          /\ bgObj.vos[bgObj.last_check.stage].first.pos = bgObj.last_check.first )

\* a visit of _bgps_vo_stage_upgrade outside the window changes nothing in
\* the stage
C25_AgedOutStays ==
    (bgObj.n >= 9 /\ N_STAGES(bgObj) >= 1 /\ bgObj.last_check.stage >= 0
        /\ ~bgObj.last_check.compared)
    => /\ bgObj.vos[bgObj.last_check.stage].n >= 1
       /\ bgObj.vos[bgObj.last_check.stage].first.pos = bgObj.last_check.first

\* C26: without fingerprint collisions, for every pattern with n >= 9 and
\* every stream, _bgps_add_vo never rejects a viable occurrence, neither in
\* _bg_add_to_first_stage nor in an upgrade
C26_NeverRejected ==
    (bgObj.n >= 9 /\ ~bgObj.collision) => bgObj.reports = 0

\* the stage that the round robin visits after stage, among stages many
AfterStage(stage, stages) == IF stage = 0 THEN stages - 1 ELSE stage - 1

HasPeriod(pattern, len, d) ==
    \A i \in 0..(len - d - 1) : At(pattern, i) = At(pattern, i + d)

\* the period of the first len bytes of pattern
PeriodOf(pattern, len) ==
    CHOOSE d \in 1..len :
        HasPeriod(pattern, len, d) /\ \A e \in 1..(d - 1) : ~HasPeriod(pattern, len, e)

\* the first index k >= from with P[k] # P[k mod pp], or n if there is none
StopPos(pattern, n, from, pp) ==
    IF \E k \in from..(n - 1) : At(pattern, k) # At(pattern, k % pp)
    THEN CHOOSE k \in from..(n - 1) :
             /\ At(pattern, k) # At(pattern, k % pp)
             /\ \A j \in from..(k - 1) : At(pattern, j) = At(pattern, j % pp)
    ELSE n

\* the period pp of the first 2^loglogn bytes of the pattern given to
\* bg_new, and the position where it stops
BnPeriod == PeriodOf(bnState.pattern, Pow2(bnState.bg.loglogn))

BnStopPos == StopPos(bnState.pattern, bnState.n, Pow2(bnState.bg.loglogn), BnPeriod)

\* first_stage of bg is stage, the first stage, of len bytes, has at most
\* stop_pos bytes, first_stage >= loglogn, and the first len bytes of the
\* pattern have the period pp
FirstStageIs(bg, pattern, stop_pos, pp, stage, len) ==
    /\ bg.first_stage = stage
    /\ len <= stop_pos
    /\ stop_pos <= bg.n
    /\ bg.first_stage >= bg.loglogn
    /\ HasPeriod(pattern, len, pp)

\* C28: for every pattern of length n >= 9, bg_new sets first_stage to
\* floor(log2(stop_pos)), where stop_pos is the first index k >= 2^loglogn
\* with P[k] # P[k mod pp] (n if there is none) and pp is the period of the
\* first 2^loglogn bytes; so 2^first_stage <= stop_pos <= n,
\* first_stage >= loglogn, and the first 2^first_stage bytes have the period pp
C28_FirstStage ==
    bnState.built
    => FirstStageIs(bnState.bg, bnState.pattern, BnStopPos, BnPeriod,
                    FloorLog2(BnStopPos), Pow2(bnState.bg.first_stage))

\* C28 as the code has it: first_stage is floor(log2(stop_pos)) when the
\* period stops before the end of the pattern and logn, the stage of the
\* whole pattern, when it does not; the length of the first stage,
\* 2^first_stage or n, is at most stop_pos <= n, first_stage >= loglogn, and
\* the bytes of the first stage have the period pp
C28_FirstStageOrWhole ==
    bnState.built
    => FirstStageIs(bnState.bg, bnState.pattern, BnStopPos, BnPeriod,
                    IF BnStopPos = bnState.n THEN bnState.bg.logn
                    ELSE FloorLog2(BnStopPos),
                    stage_to_len(bnState.bg, 0))

\* bg_new has built the engine for a pattern of 17 bytes whose period goes
\* on to its end: the first stage is stage logn = 5, above loglogn = 4
C28_Witness ==
    /\ bnState.built
    /\ bnState.n = 17
    /\ BnPeriod = 1
    /\ BnStopPos = 17
    /\ bnState.bg.loglogn = 4
    /\ bnState.bg.first_stage = 5
    /\ stage_to_len(bnState.bg, 0) = 17

\* bg_new has built the engine for a pattern of 35 bytes whose period stops
\* at position 32: the first stage is stage 5, above loglogn = 4
C28_WitnessStops ==
    /\ bnState.built
    /\ bnState.n = 35
    /\ BnStopPos = 32
    /\ bnState.bg.loglogn = 4
    /\ bnState.bg.first_stage = 5

\* C29: for every pattern of length n >= 9 the prefix of the first stage
\* has the period pp > logn, and in every state any two viable
\* occurrences held in stage 0 are at least logn positions apart
C29_FirstStagePeriod ==
    (bgObj.n >= 9 /\ N_STAGES(bgObj) >= 1)
    => /\ bgObj.kmp_period.n = PeriodOf(bgObj.pattern, stage_to_len(bgObj, 0))
       /\ bgObj.kmp_period.n > bgObj.logn
       /\ bgObj.vos[0].n >= 2 => bgObj.vos[0].step.pos >= bgObj.logn

\* pp is the period of the prefix of the first stage, and two viable
\* occurrences in stage 0 are at least logn apart when pp > logn
C29_ApartWhenLongPeriod ==
    (bgObj.n >= 9 /\ N_STAGES(bgObj) >= 1)
    => /\ bgObj.kmp_period.n = PeriodOf(bgObj.pattern, stage_to_len(bgObj, 0))
       /\ (bgObj.kmp_period.n > bgObj.logn /\ bgObj.vos[0].n >= 2)
            => bgObj.vos[0].step.pos >= bgObj.logn

\* after the calls of bg_read_char for the bytes of stream, current_pos is
\* their number k, current_r is (r^k, r^-k) and current_fp is the
\* fingerprint of the bytes
RollingState(bg) ==
    /\ bg.current_pos = Len(bg.stream)
    /\ bg.current_r = FieldVal(PowMod(bg.r.val, Len(bg.stream), bg.p),
                               PowMod(bg.r.inv, Len(bg.stream), bg.p))
    /\ bg.current_fp = StreamFp(bg, 0, Len(bg.stream))

\* C30: for every engine of a pattern with n >= 9, whatever its number of
\* stages, after k calls of bg_read_char current_pos = k,
\* current_r = (r^k, r^-k) and current_fp is calc_fp of the k bytes read
C30_RollingState ==
    bgObj.n >= 9 => RollingState(bgObj)

\* the same for the engines with a stage above the first only
C30_RollingStateStaged ==
    (bgObj.n >= 9 /\ N_STAGES(bgObj) >= 1) => RollingState(bgObj)

\* the positions of the progression vos
ProgressionSet(vos) ==
    IF vos.n = 0 THEN {}
    ELSE IF vos.n = 1 THEN {vos.first.pos}
    ELSE { vos.first.pos + k * vos.step.pos : k \in 0..(vos.n - 1) }

\* C31: after _bgps_add_vo has rejected a viable occurrence, in
\* _bg_add_to_first_stage or in an upgrade, no progression is corrupted:
\* every stage with count >= 2 has step.pos >= 1, and the viable occurrences
\* of every stage are those at first.pos + k * step.pos for k < count
C31_ProgressionKept ==
    (bgObj.n >= 9 /\ N_STAGES(bgObj) >= 1 /\ bgObj.reports >= 1)
    => \A stage \in DOMAIN bgObj.vos :
           /\ bgObj.vos[stage].n >= 2 => bgObj.vos[stage].step.pos >= 1
           /\ bgObj.held[stage] = ProgressionSet(bgObj.vos[stage])

\* the same up to the first rejection
C31_ProgressionBeforeReject ==
    (bgObj.n >= 9 /\ N_STAGES(bgObj) >= 1 /\ bgObj.reports = 0)
    => \A stage \in DOMAIN bgObj.vos :
           /\ bgObj.vos[stage].n >= 2 => bgObj.vos[stage].step.pos >= 1
           /\ bgObj.held[stage] = ProgressionSet(bgObj.vos[stage])

\* a call in which _bg_add_to_first_stage rejects a viable occurrence, in an
\* engine with one stage above the first, leaves vos[0] as it was
C31_RejectLeavesStage ==
    [][ (N_STAGES(bgObj) = 1 /\ bgObj'.reports = bgObj.reports + 1)
        => bgObj'.vos = bgObj.vos /\ bgObj'.held = bgObj.held ]_vars

\* whether the bytes of w from the i-th on are a path of the trie from state s
RECURSIVE AcIsPath(_, _, _, _)
AcIsPath(states, w, i, s) ==
    IF i > Len(w) THEN TRUE
    ELSE IF states[s].children[w[i]] = 0 THEN FALSE
    ELSE AcIsPath(states, w, i + 1, states[s].children[w[i]])

\* the state that the bytes of w from the i-th on lead to from state s, when
\* they are a path of the trie
RECURSIVE AcWalk(_, _, _, _)
AcWalk(states, w, i, s) ==
    IF i > Len(w) THEN s
    ELSE AcWalk(states, w, i + 1, states[s].children[w[i]])

\* whether a state spells w, and that state
AcHasState(states, w) == AcIsPath(states, w, 1, 0)

AcStateOf(states, w) == AcWalk(states, w, 1, 0)

\* the strings a state of a dictionary within the bounds can spell
AcWords == StringsUpTo(Alphabet, MaxAcPatLen)

\* where the longest proper suffix of w that is a path of the trie starts
\* (the empty suffix is the path to the root), and the state that spells it
AcLongestSuffixAt(states, w) ==
    CHOOSE k \in 1..Len(w) :
        /\ AcHasState(states, Sub(w, k, Len(w) - k))
        /\ \A j \in 1..(k - 1) : ~AcHasState(states, Sub(w, j, Len(w) - j))

AcLongestSuffixState(states, w) ==
    AcStateOf(states, Sub(w, AcLongestSuffixAt(states, w),
                          Len(w) - AcLongestSuffixAt(states, w)))

\* C32: after ac_compile the failure state of every state but the root is
\* the state that spells the longest proper suffix of the state's string
\* that is a path of the trie, the root if there is none; so it is another,
\* less deep state, and the states of depth 1 fail to the root
C32_FailureLinks ==
    \A w \in AcWords :
        AcHasState(acObj.states, w)
        => acObj.states[AcStateOf(acObj.states, w)].failure_state
             = AcLongestSuffixState(acObj.states, w)

\* every state fails to itself
C32_FailsToItself ==
    \A s \in DOMAIN acObj.states : acObj.states[s].failure_state = s

\* C33: for every compiled dictionary, every state the matcher is in and
\* every byte, ac_read_char returns: its walk along the failure states
\* comes to a state with a transition on the byte or to the root
C33_ReadCharReturns ==
    ~acObj.hangs /\ acRet # DoesNotReturn

\* ac_read_char returns exactly when the current state is the root or has a
\* transition on the byte
C33_ReturnsWithoutWalk ==
    [][ \A c \in Alphabet :
            acStream' = Append(acStream, c)
            => ( acObj'.hangs
                 <=> ( acObj.current_state # 0
                       /\ acObj.states[acObj.current_state].children[c] = 0 ) ) ]_vars

\* the first state with a pattern id on the failure chain that starts at s,
\* or the root when there is none
RECURSIVE NearestWithId(_, _)
NearestWithId(states, s) ==
    IF states[s].id # null_pattern_id THEN s
    ELSE IF s = 0 THEN 0
    ELSE NearestWithId(states, states[s].failure_state)

\* C34: after lmac_compile the suffix link of a state is the state itself
\* when it has a pattern id, otherwise the nearest state with a pattern id
\* on its failure chain, otherwise the root; and lmac_read_char returns the
\* id of the longest pattern of the dictionary that ends at the byte just
\* read, or null_pattern_id when none does
C34_SuffixLinks ==
    /\ \A s \in DOMAIN acObj.states :
           acObj.states[s].suffix_link = NearestWithId(acObj.states, s)
    /\ Len(acStream) > 0 => acRet = LongestMatchId(acStream)

\* a pattern is reported in a state that has no pattern id, over a failure
\* link
C34_Witness ==
    /\ Len(acStream) > 0
    /\ acRet # null_pattern_id
    /\ acObj.states[acObj.current_state].id = null_pattern_id
    /\ acObj.states[acObj.current_state].suffix_link
           = acObj.states[acObj.current_state].failure_state

\* C35: every index with which ac_add_pattern and ac_read_char index a
\* child table lies in 0..255 and is the unsigned value of the byte, for
\* bytes of every value
C35_ChildIndex ==
    \A u \in abState.used : u.index \in 0..255 /\ u.index = u.byte

\* the child tables are indexed with the unsigned value of the byte when
\* char is unsigned, and for the bytes below 0x80
C35_ChildIndexUnsigned ==
    \A u \in abState.used :
        (~abState.char_signed \/ u.byte < 128) => u.index \in 0..255 /\ u.index = u.byte

\* a byte from 0x80 on in a signed char is a negative index
C35_ChildIndexSigned ==
    \A u \in abState.used :
        (abState.char_signed /\ u.byte >= 128) => u.index = u.byte - 256 /\ u.index < 0

\* C36: kmp_read_char returns 1 only when no byte is left in the ring
\* buffer: a match found while the buffer is drained is returned by the call
\* that empties the buffer, so it is the match of the byte given to that call
C36_MatchEmptiesBuffer ==
    (Len(kmpText) > 0 /\ kmpRet = 1) =>
        /\ kmp_buffer_len(kmp) = 0
        /\ ~kmp.HAVE_BUFFER
        /\ OccursEndingAt(kmpPattern, kmpText, Len(kmpText) - 1)

\* every match is returned by the call of _kmp_read_char on the byte given,
\* with no buffer: the branch that drains the buffer never finds a match
C36_NoMatchWhileDraining ==
    (Len(kmpText) > 0 /\ kmpRet = 1) => kmp.branch = "direct"

\* a match is returned after the buffer was used and drained
C36_Witness ==
    /\ kmpRet = 1
    /\ kmp.buf_end >= 1
    /\ ~kmp.HAVE_BUFFER
    /\ kmpPattern = KmpChainPattern

\* C37: after every kmp_read_char call, when KMP_LOOP_FAIL_FLAG is set then
\* KMP_HAVE_BUFFER_FLAG is set and buffer[buf_start] is a byte whose failure
\* loop has not resolved: it differs from pattern[offset], and offset is
\* not 0
C37_LoopFailByte ==
    (Len(kmpText) > 0 /\ kmp.LOOP_FAIL) =>
        /\ kmp.HAVE_BUFFER
        /\ kmp.offset # 0
        /\ At(kmp.pattern, kmp.offset) # kmp.buffer[kmp.buf_start]

\* the same after the calls that did not drain the buffer
C37_LoopFailByteNotDraining ==
    (Len(kmpText) > 0 /\ kmp.LOOP_FAIL /\ kmp.branch # "have_buffer") =>
        /\ kmp.HAVE_BUFFER
        /\ kmp.offset # 0
        /\ At(kmp.pattern, kmp.offset) # kmp.buffer[kmp.buf_start]

\* KMP_LOOP_FAIL_FLAG is never set while the first byte of the buffer is the
\* byte the pattern has at the current offset
C37_NoStepForMatchingByte ==
    ~(/\ kmp.LOOP_FAIL
      /\ kmp.HAVE_BUFFER
      /\ kmp.offset # 0
      /\ At(kmp.pattern, kmp.offset) = kmp.buffer[kmp.buf_start])

\* C38: for a prime p and a in 1..p-1, on entry to every iteration of the
\* loop of calculate_inverse t * a = r and tt * a = rr modulo p, t and tt lie
\* in 0..p, the product q * tt is at most p * p (below 2^64 for p < 2^32)
\* and t + p at most 2 * p, r decreases from iteration to iteration, and
\* the value returned is the t in 0..p-1 with t * a = 1 modulo p
C38_Inverse ==
    /\ (ciState.t * ciState.a) % ciState.p = ciState.r % ciState.p
    /\ (ciState.tt * ciState.a) % ciState.p = ciState.rr % ciState.p
    /\ ciState.t \in 0..ciState.p
    /\ ciState.tt \in 0..ciState.p
    /\ ciState.q <= ciState.p
    /\ ciState.qtt <= ciState.p * ciState.p
    /\ ciState.rr < ciState.r
    /\ ciState.r + ciState.iterations <= ciState.p + 1
    /\ ciState.returned =>
           /\ ciState.ret \in 0..(ciState.p - 1)
           /\ (ciState.ret * ciState.a) % ciState.p = 1
           /\ ciState.ret = calculate_inverse(ciState.a, ciState.p)

\* calculate_inverse has returned after several iterations that took both
\* branches for tt
C38_Witness ==
    /\ ciState.returned
    /\ ciState.iterations >= 4
    /\ ciState.p = InverseLargePrime
    /\ ciState.ret > 1

\* the positions in the log of the calls of fn made on instance inst
CallsOf(fn, inst) ==
    {k \in 1..Len(hsState.log) : hsState.log[k].fn = fn /\ hsState.log[k].inst = inst}

\* the bytes instance inst was given for stream file stream while run was measured
BytesFed(inst, run, stream) ==
    LET fed == SelectSeq(hsState.log,
                         LAMBDA e : e.fn = "read_char" /\ e.inst = inst /\ e.run = run
                                    /\ e.stream = stream)
    IN  [k \in 1..Len(fed) |-> fed[k].arg]

IsPrefix(s, t) == Len(s) <= Len(t) /\ s = SubSeq(t, 1, Len(s))

\* the ids given to instance inst by add_pattern, in the order of the calls
IdsAdded(inst) ==
    LET added == SelectSeq(hsState.log, LAMBDA e : e.fn = "add_pattern" /\ e.inst = inst)
    IN  [k \in 1..Len(added) |-> added[k].arg]

\* C39: in every run of main, for every matcher instance (the tested ones
\* and the reliable Aho-Corasick instance): mps_table_setup comes before
\* create; every add_pattern call comes after create and before the one
\* compile call of the instance, and once compile is called each distinct
\* pattern of the dictionary has been added exactly once to every instance;
\* every reset and read_char call comes after compile; before the first byte
\* of every stream reset is called on the reliable and on the tested
\* instance, and no call other than read_char for that stream lies between
\* the reset and a byte of the stream; and the two instances are given the
\* bytes of the stream file in the same order, the reliable instance having
\* received all the bytes of the tested one whenever a chunk is finished
C39_CallOrder ==
    hsState.pc # "main" =>
        /\ CallsOf("mps_table_setup", 0) = {1}
        /\ \A inst \in 0..MPS_SIZE :
               /\ Cardinality(CallsOf("create", inst)) <= 1
               /\ Cardinality(CallsOf("compile", inst)) <= 1
               /\ \A k \in CallsOf("create", inst) : k > 1
               /\ \A k \in CallsOf("add_pattern", inst) :
                      /\ \E c \in CallsOf("create", inst) : c < k
                      /\ \A m \in CallsOf("compile", inst) : k < m
               /\ CallsOf("compile", inst) # {} =>
                      /\ IdsAdded(inst) = [k \in 1..Len(ptState.calls) |-> ptState.calls[k].id]
                      /\ \A k, m \in 1..Len(ptState.calls) :
                             k # m => ptState.calls[k].pat # ptState.calls[m].pat
                      /\ {ptState.calls[k].pat : k \in 1..Len(ptState.calls)}
                             = {dictLines[k] : k \in 1..Len(dictLines)}
               /\ \A k \in CallsOf("reset", inst) \cup CallsOf("read_char", inst) :
                      \E m \in CallsOf("compile", inst) : m < k
               /\ \A k \in CallsOf("read_char", inst) :
                      \E m \in CallsOf("reset", inst) :
                          /\ m < k
                          /\ hsState.log[m].run = hsState.log[k].run
                          /\ hsState.log[m].stream = hsState.log[k].stream
                          /\ \A n \in (m + 1)..(k - 1) :
                                 hsState.log[n].inst = inst =>
                                     /\ hsState.log[n].fn = "read_char"
                                     /\ hsState.log[n].run = hsState.log[k].run
                                     /\ hsState.log[n].stream = hsState.log[k].stream
        /\ \A run \in 0..(MPS_SIZE - 1) : \A stream \in 0..(hsState.n_stream_files - 1) :
               /\ IsPrefix(BytesFed(run, run, stream), hsState.stream_files[stream + 1])
               /\ IsPrefix(BytesFed(ReliableInst, run, stream), BytesFed(run, run, stream))
               /\ hsState.pc # "hangs" =>
                      BytesFed(ReliableInst, run, stream) = BytesFed(run, run, stream)
               /\ \A k \in CallsOf("reset", run) :
                      (hsState.log[k].run = run /\ hsState.log[k].stream = stream) =>
                          /\ hsState.log[k - 1] = [hsState.log[k] EXCEPT !.inst = ReliableInst]
                          /\ BytesFed(run, run, stream) = <<>>
                             \/ \E b \in CallsOf("read_char", run) :
                                    /\ k < b
                                    /\ hsState.log[b].run = run
                                    /\ hsState.log[b].stream = stream
                                    /\ hsState.log[b].pos = 0

\* main has returned after both tested instances were measured on two stream
\* files, one of them longer than a chunk, with a dictionary that names a
\* pattern twice
C39_Witness ==
    /\ hsState.pc = "done"
    /\ hsState.n_stream_files = 2
    /\ \E stream \in 0..1 : Len(BytesFed(1, 1, stream)) > STREAM_BUFFER_SIZE
    /\ Len(dictLines) > Len(ptState.calls)
    /\ Cardinality(CallsOf("reset", ReliableInst)) = 4

\* the pairs of results compared while instance run was measured
ComparedIn(run) == SelectSeq(hsState.compared, LAMBDA pair : pair.run = run)

\* the number of those pairs that the specification puts in a class
ComparedOfClass(run, class) ==
    Cardinality({k \in 1..Len(ComparedIn(run)) :
                    SuccessClass(ComparedIn(run)[k].algo.id, ComparedIn(run)[k].real.id) = class})

RECURSIVE TotalLen(_, _)
TotalLen(files, k) == IF k > Len(files) THEN 0 ELSE Len(files[k]) + TotalLen(files, k + 1)

\* C40: for every tested instance the four counters add up to the number of
\* bytes read from the stream files so far, and to the length of all stream
\* files once measure_single_instance_stats is done with the instance; every
\* stream position was compared once and raised one counter, the one of its
\* class; and the two results compared at an index of a chunk were returned
\* for the same byte: the same position of the same stream file in the same
\* measurement
C40_CountersSum ==
    \A i \in 1..MPS_SIZE :
        /\ hsState.stats[i].success + hsState.stats[i].partial_suc
               + hsState.stats[i].false_neg + hsState.stats[i].false_pos = hsState.bytes[i]
        /\ Len(ComparedIn(i - 1)) = hsState.bytes[i]
        /\ hsState.stats[i].success = ComparedOfClass(i - 1, "success")
        /\ hsState.stats[i].partial_suc = ComparedOfClass(i - 1, "partial_suc")
        /\ hsState.stats[i].false_neg = ComparedOfClass(i - 1, "false_neg")
        /\ hsState.stats[i].false_pos = ComparedOfClass(i - 1, "false_pos")
        /\ \A k \in 1..Len(ComparedIn(i - 1)) :
               /\ ComparedIn(i - 1)[k].algo.run = i - 1
               /\ ComparedIn(i - 1)[k].real.run = i - 1
               /\ ComparedIn(i - 1)[k].algo.stream = ComparedIn(i - 1)[k].real.stream
               /\ ComparedIn(i - 1)[k].algo.pos = ComparedIn(i - 1)[k].real.pos
               /\ ComparedIn(i - 1)[k].algo.stream \in 0..(hsState.n_stream_files - 1)
               /\ ComparedIn(i - 1)[k].algo.pos \in
                      0..(Len(hsState.stream_files[ComparedIn(i - 1)[k].algo.stream + 1]) - 1)
               /\ \A m \in 1..Len(ComparedIn(i - 1)) :
                      k # m =>
                          \/ ComparedIn(i - 1)[k].algo.stream # ComparedIn(i - 1)[m].algo.stream
                          \/ ComparedIn(i - 1)[k].algo.pos # ComparedIn(i - 1)[m].algo.pos
        /\ (hsState.pc = "done" \/ (hsState.pc \in {"stream", "chunk"} /\ hsState.run > i - 1)) =>
               hsState.bytes[i] = TotalLen(hsState.stream_files, 1)

\* both instances were measured on two stream files, a chunk was filled and a
\* shorter one followed, and the second instance has results of three classes
C40_Witness ==
    /\ hsState.pc = "done"
    /\ hsState.n_stream_files = 2
    /\ hsState.bytes[2] > STREAM_BUFFER_SIZE
    /\ hsState.stats[2].false_pos > 0
    /\ hsState.stats[2].success > 0
    /\ hsState.stats[2].partial_suc > 0
    /\ hsState.stats[1].success = hsState.bytes[1]

====
